---- MODULE Spec2Model ----
(***************************************************************************)
(* Model of the STT/TTS worker microservice (src/worker/main.py):          *)
(*   - the /synthesize-speech handler and its engine fallback,             *)
(*   - Token ID Recovery (turn_token_into_id) on character sequences,      *)
(*   - the streaming assembler (tokens_decoder_async_generator).           *)
(* Three specifications share the variables: Spec (the endpoint),          *)
(* SpecAsm (the assembler) and SpecTok (Token ID Recovery alone).          *)
(***************************************************************************)
EXTENDS Integers, Sequences, FiniteSets, TLC

VARIABLES
    \* engine availability state, computed at import time
    KOKORO_TTS_AVAILABLE, kokoro_pipelines, DECODER_AVAILABLE,
    orpheus_api_configs, ORPHEUS_TTS_AVAILABLE,
    \* /synthesize-speech: position and locals of the handler
    pc, language, temp_file_path, synthesis_method_used,
    generated_successfully, audio_bytes,
    \* the temporary directory and the number of mkstemp calls so far
    fs, mkstemp_calls,
    \* history of the current request
    attempts, created, responses, served,
    \* generate_speech_via_api_and_decode: the worker thread, the WAV writer,
    \* the frames written so far, its result and its output_file_path
    thread, wf, frames_written, audio_written, output_file_path,
    \* generate_tokens_from_api: the client's position, the state of the
    \* connection, the lines sent, the lines read, the fragments yielded (with
    \* the number of their line) and whether an exception left the generator
    api_pc, api_status, api_lines, api_pos, api_yielded, api_raised,
    \* the speech-to-text engines of the worker
    ENABLE_PARAKEET_STT, PARAKEET_STT_AVAILABLE, parakeet_model_instance,
    FASTER_WHISPER_AVAILABLE, whisper_model_instance,
    \* transcribe_audio_endpoint: one request being served, the engine calls
    \* it made and its response
    stt_pc, stt_language, transcription_result, stt_engine_used, stt_calls,
    stt_response,
    \* two concurrent streaming requests: for each its position, the number of
    \* its temporary file, the fragments consumed and its assembler; and the
    \* frames in each temporary file
    creq, cfiles,
    \* the questionnaire service: _current_questionnaire, _current_answers,
    \* _current_question_index, the last call made to it and what
    \* get_next_question_details returned since the last load
    current_questionnaire, current_answers, current_question_index,
    qs_last, qs_returned,
    \* generate_speech_with_kokoro in detail: its position, the chunks the
    \* pipeline emitted, audio_segments, the samples in the output file and
    \* the value returned
    kk_pc, kk_emitted, kk_audio_segments, kk_file, kk_result,
    \* streaming assembler: locals of tokens_decoder_async_generator;
    \* script: the kind of every fragment delivered so far ("none" before the
    \* first, "mixed" once two kinds were delivered)
    apc, buffer, count, delivered, script, calls, indices, wav,
    \* Token ID Recovery applied to one input
    tok_text, tok_numeral, tok_index, tok_done, tok_result

engine_vars == <<KOKORO_TTS_AVAILABLE, kokoro_pipelines, DECODER_AVAILABLE,
                 orpheus_api_configs, ORPHEUS_TTS_AVAILABLE>>
tts_vars == <<pc, language, temp_file_path, synthesis_method_used,
              generated_successfully, audio_bytes, fs, mkstemp_calls,
              attempts, created, responses, served>>
handler_vars == <<pc, language, temp_file_path, synthesis_method_used,
                  generated_successfully, audio_bytes, mkstemp_calls,
                  attempts, created, responses, served>>
stream_vars == <<thread, wf, frames_written, audio_written, output_file_path>>
asm_vars == <<apc, buffer, count, delivered, script, calls, indices, wav>>
tok_vars == <<tok_text, tok_numeral, tok_index, tok_done, tok_result>>
api_vars == <<api_pc, api_status, api_lines, api_pos, api_yielded, api_raised>>
\* the components added to the worker's model after the synthesis endpoint
stt_engine_vars == <<ENABLE_PARAKEET_STT, PARAKEET_STT_AVAILABLE,
                     parakeet_model_instance, FASTER_WHISPER_AVAILABLE,
                     whisper_model_instance>>
stt_vars == <<stt_pc, stt_language, transcription_result, stt_engine_used,
              stt_calls, stt_response>>
conc_vars == <<creq, cfiles>>
qs_vars == <<current_questionnaire, current_answers, current_question_index,
             qs_last, qs_returned>>
kk_vars == <<kk_pc, kk_emitted, kk_audio_segments, kk_file, kk_result>>
ext_vars == <<api_vars, stt_engine_vars, stt_vars, conc_vars, qs_vars, kk_vars>>
vars == <<engine_vars, tts_vars, stream_vars, asm_vars, tok_vars, ext_vars>>
other_than_api == <<engine_vars, tts_vars, stream_vars, asm_vars, tok_vars,
                    stt_engine_vars, stt_vars, conc_vars, qs_vars,
        kk_vars>>
other_than_stt == <<engine_vars, tts_vars, stream_vars, asm_vars, tok_vars,
                    api_vars, conc_vars, qs_vars,
        kk_vars>>
other_than_conc == <<engine_vars, tts_vars, stream_vars, asm_vars, tok_vars,
                     api_vars, stt_engine_vars, stt_vars, qs_vars,
        kk_vars>>
other_than_kk == <<engine_vars, tts_vars, stream_vars, asm_vars, tok_vars,
                   api_vars, stt_engine_vars, stt_vars, conc_vars, qs_vars>>
other_than_qs == <<engine_vars, tts_vars, stream_vars, asm_vars, tok_vars,
                   api_vars, stt_engine_vars, stt_vars, conc_vars,
        kk_vars>>

\* Python's None, and a present value v, as sequences of length 0 and 1
None == <<>>
Some(v) == <<v>>

(***************************************************************************)
(* Bounds of the model                                                     *)
(***************************************************************************)
MaxRequests == 2
MaxFrames == 2
MaxFragments == 36
MaxTokens == 36
MaxIndex == 15

(***************************************************************************)
(* Startup configuration                                                   *)
(***************************************************************************)
\* API language -> kokoro_lang_code (three of the nine table rows)
KOKORO_LANGUAGE_CONFIG == [l \in {"en", "es", "fr"} |->
    CASE l = "en" -> "a" [] l = "es" -> "e" [] l = "fr" -> "f"]

ORPHEUS_LANGUAGE_API_SETUP == {"en", "de"}

\* requested languages: both engines, local only, streaming only, none
Languages == {"en", "es", "fr", "de", "xx"}

KokoroCodes == {KOKORO_LANGUAGE_CONFIG[l] : l \in DOMAIN KOKORO_LANGUAGE_CONFIG}

\* Import time: each pipeline initialises or fails on its own; Kokoro is
\* available iff at least one did.  The decoder import decides Orpheus.
EngineInit ==
    /\ kokoro_pipelines \in SUBSET KokoroCodes
    /\ KOKORO_TTS_AVAILABLE = (kokoro_pipelines # {})
    /\ DECODER_AVAILABLE \in BOOLEAN
    /\ orpheus_api_configs =
          IF DECODER_AVAILABLE THEN ORPHEUS_LANGUAGE_API_SETUP ELSE {}
    /\ ORPHEUS_TTS_AVAILABLE = (orpheus_api_configs # {})

(***************************************************************************)
(* The temporary directory                                                 *)
(***************************************************************************)
Paths == 1..MaxRequests
\* "header": a closed WAV container with no frames (non-empty on disk);
\* "partial": a WAV container still being written; "audio": a closed one
FileStates == {"absent", "empty", "header", "partial", "audio"}

exists(f, p) == f[p] # "absent"
getsize_positive(f, p) == f[p] \in {"header", "partial", "audio"}
remove(f, p) == [f EXCEPT ![p] = "absent"]

FinallyKeepsFile(f, tp) == f

\* finally: block of the handler
Finally(f, tp) ==
    IF tp # None /\ exists(f, tp[1]) THEN remove(f, tp[1]) ELSE f

(***************************************************************************)
(* The two engines, as the handler sees them                               *)
(***************************************************************************)
\* pipe: what the pipeline does ("segments", "no_segments", "throws");
\* wr: what sf.write leaves ("ok", "throws", "empty")
generate_speech_with_kokoro(pipe, wr) ==
    IF pipe # "segments" THEN [ok |-> FALSE, file |-> "empty"]
    ELSE IF wr = "ok" THEN [ok |-> TRUE, file |-> "audio"]
    ELSE IF wr = "throws" THEN [ok |-> FALSE, file |-> "header"]
    ELSE [ok |-> FALSE, file |-> "empty"]

(***************************************************************************)
(* /synthesize-speech                                                      *)
(***************************************************************************)
HTTPException(status) == [kind |-> "error", status |-> status]
StreamingResponse(body, method) ==
    [kind |-> "audio", status |-> 200, body |-> body, method |-> method]

\* raise inside the try: the finally block runs, then the error is sent
Raise(status, f, tp) ==
    /\ responses' = Append(responses, HTTPException(status))
    /\ fs' = Finally(f, tp)
    /\ pc' = "done"
    /\ served' = served + 1

Request(lang) ==
    /\ pc = "idle"
    /\ served < MaxRequests
    /\ language' = lang
    /\ temp_file_path' = None
    /\ synthesis_method_used' = "none"
    /\ generated_successfully' = FALSE
    /\ audio_bytes' = None
    /\ attempts' = <<>>
    /\ created' = {}
    /\ responses' = <<>>
    /\ pc' = "select_local"
    /\ thread' = "idle"
    /\ wf' = "none"
    /\ frames_written' = 0
    /\ audio_written' = FALSE
    /\ output_file_path' = None
    /\ UNCHANGED <<fs, mkstemp_calls, served>>

SelectLocalIgnoresPipelines ==
    /\ KOKORO_TTS_AVAILABLE
    /\ language \in DOMAIN KOKORO_LANGUAGE_CONFIG

SelectLocalNever == FALSE

\* lines 275-278: Kokoro is tried for this language
SelectLocalApplies ==
    /\ KOKORO_TTS_AVAILABLE
    /\ language \in DOMAIN KOKORO_LANGUAGE_CONFIG
    /\ KOKORO_LANGUAGE_CONFIG[language] \in kokoro_pipelines

SelectLocal ==
    /\ pc = "select_local"
    /\ IF SelectLocalApplies
       THEN /\ synthesis_method_used' = "kokoro"
            /\ mkstemp_calls' = mkstemp_calls + 1
            /\ temp_file_path' = Some(mkstemp_calls + 1)
            /\ fs' = [fs EXCEPT ![mkstemp_calls + 1] = "empty"]
            /\ created' = created \cup {mkstemp_calls + 1}
            /\ pc' = "kokoro_await"
       ELSE /\ pc' = "select_streaming"
            /\ UNCHANGED <<synthesis_method_used, mkstemp_calls,
                           temp_file_path, fs, created>>
    /\ UNCHANGED <<language, generated_successfully, audio_bytes,
                   attempts, responses, served>>

KokoroFailedUnloadsPipeline(f) ==
    LET tp == IF temp_file_path # None /\ exists(f, temp_file_path[1])
              THEN None ELSE temp_file_path
        f2 == IF temp_file_path # None /\ exists(f, temp_file_path[1])
              THEN remove(f, temp_file_path[1]) ELSE f
    IN  /\ temp_file_path' = tp
        /\ Raise(500, f2, tp)
        /\ kokoro_pipelines' =
              kokoro_pipelines \ {KOKORO_LANGUAGE_CONFIG[language]}
        /\ KOKORO_TTS_AVAILABLE' = (kokoro_pipelines' # {})
        /\ UNCHANGED <<generated_successfully, DECODER_AVAILABLE,
                       orpheus_api_configs, ORPHEUS_TTS_AVAILABLE>>

\* lines 284-286: the file is removed and 500 raised; the pipeline and the
\* availability flags are only read, the failure marks nothing
KokoroFailed(f) ==
    LET tp == IF temp_file_path # None /\ exists(f, temp_file_path[1])
              THEN None ELSE temp_file_path
        f2 == IF temp_file_path # None /\ exists(f, temp_file_path[1])
              THEN remove(f, temp_file_path[1]) ELSE f
    IN  /\ temp_file_path' = tp
        /\ Raise(500, f2, tp)
        /\ UNCHANGED <<generated_successfully, engine_vars>>

KokoroReturns(pipe, wr) ==
    /\ pc = "kokoro_await"
    /\ LET r == generate_speech_with_kokoro(pipe, wr)
           f == [fs EXCEPT ![temp_file_path[1]] = r.file]
       IN  /\ attempts' = Append(attempts, [engine |-> "kokoro", ok |-> r.ok])
           /\ IF r.ok /\ exists(f, temp_file_path[1])
                     /\ getsize_positive(f, temp_file_path[1])
              THEN /\ generated_successfully' = TRUE
                   /\ fs' = f
                   /\ pc' = "select_streaming"
                   /\ UNCHANGED <<temp_file_path, responses, served,
                                  engine_vars>>
              ELSE KokoroFailed(f)
    /\ UNCHANGED <<language, synthesis_method_used, audio_bytes,
                   mkstemp_calls, created>>

SelectStreaming ==
    /\ pc = "select_streaming"
    /\ IF generated_successfully
       THEN /\ pc' = "respond"
            /\ UNCHANGED <<synthesis_method_used, mkstemp_calls,
                           temp_file_path, fs, created, responses, served>>
       ELSE IF ORPHEUS_TTS_AVAILABLE /\ language \in orpheus_api_configs
       THEN /\ synthesis_method_used' = "orpheus"
            /\ IF temp_file_path = None
               THEN /\ mkstemp_calls' = mkstemp_calls + 1
                    /\ temp_file_path' = Some(mkstemp_calls + 1)
                    /\ fs' = [fs EXCEPT ![mkstemp_calls + 1] = "empty"]
                    /\ created' = created \cup {mkstemp_calls + 1}
               ELSE UNCHANGED <<mkstemp_calls, temp_file_path, fs, created>>
            /\ pc' = "orpheus_await"
            /\ UNCHANGED <<responses, served>>
       ELSE IF synthesis_method_used = "none"
       THEN /\ Raise(400, fs, temp_file_path)
            /\ UNCHANGED <<synthesis_method_used, mkstemp_calls,
                           temp_file_path, created>>
       ELSE IF /\ ~ORPHEUS_TTS_AVAILABLE
               /\ synthesis_method_used = "none"
               /\ ~(KOKORO_TTS_AVAILABLE
                      /\ language \in DOMAIN KOKORO_LANGUAGE_CONFIG)
       THEN /\ Raise(503, fs, temp_file_path)
            /\ UNCHANGED <<synthesis_method_used, mkstemp_calls,
                           temp_file_path, created>>
       ELSE /\ pc' = "respond"
            /\ UNCHANGED <<synthesis_method_used, mkstemp_calls,
                           temp_file_path, fs, created, responses, served>>
    /\ UNCHANGED <<language, generated_successfully, audio_bytes, attempts>>

OrpheusFailedAsClientError(f) ==
    /\ temp_file_path' = None
    /\ Raise(400, remove(f, temp_file_path[1]), None)
    /\ UNCHANGED generated_successfully

OrpheusFailed(f) ==
    LET tp == IF temp_file_path # None /\ exists(f, temp_file_path[1])
              THEN None ELSE temp_file_path
        f2 == IF temp_file_path # None /\ exists(f, temp_file_path[1])
              THEN remove(f, temp_file_path[1]) ELSE f
    IN  /\ temp_file_path' = tp
        /\ Raise(500, f2, tp)
        /\ UNCHANGED generated_successfully

\* lines 165-168 and 187: the call starts; without the decoder it returns
\* False at once, otherwise the worker thread is started
OrpheusStart ==
    /\ pc = "orpheus_await"
    /\ thread = "idle"
    /\ thread' = IF DECODER_AVAILABLE THEN "running" ELSE "finished"
    /\ wf' = "none"
    /\ frames_written' = 0
    /\ audio_written' = FALSE
    /\ output_file_path' = temp_file_path
    /\ UNCHANGED <<handler_vars, fs>>

\* line 177: wave.open(output_file_path, "wb"); a failure is caught at
\* line 185 and ends the thread
WaveOpen(ok) ==
    /\ thread = "running"
    /\ wf = "none"
    /\ IF ok
       THEN /\ wf' = "open"
            /\ fs' = [fs EXCEPT ![output_file_path[1]] = "empty"]
            /\ UNCHANGED thread
       ELSE /\ thread' = "finished"
            /\ UNCHANGED <<wf, fs>>
    /\ UNCHANGED <<handler_vars, frames_written, audio_written,
                   output_file_path>>

\* line 180: one decoded chunk is written
WriteFrames ==
    /\ thread = "running"
    /\ wf = "open"
    /\ frames_written < MaxFrames
    /\ frames_written' = frames_written + 1
    /\ fs' = [fs EXCEPT ![output_file_path[1]] = "partial"]
    /\ UNCHANGED <<handler_vars, thread, wf, audio_written, output_file_path>>

AudioWrittenIgnoresFrames(written_anything_to_wav, f, p) ==
    exists(f, p) /\ getsize_positive(f, p)

\* line 182
AudioWritten(written_anything_to_wav, f, p) ==
    written_anything_to_wav /\ exists(f, p) /\ getsize_positive(f, p)

\* lines 177-185: the stream ends, or raises (exc); leaving the with block
\* finalises and closes the WAV; the thread ends
StreamEnds(exc) ==
    /\ thread = "running"
    /\ wf = "open"
    /\ LET p == output_file_path[1]
           f == [fs EXCEPT ![p] = IF frames_written > 0
                                  THEN "audio" ELSE "header"]
       IN  /\ fs' = f
           /\ audio_written' =
                 IF exc THEN FALSE ELSE AudioWritten(frames_written > 0, f, p)
    /\ wf' = "closed"
    /\ thread' = "finished"
    /\ UNCHANGED <<handler_vars, frames_written, output_file_path>>

JoinWithoutWaiting == thread \in {"running", "finished"}

JoinOnlyAfterAudio == thread = "finished" /\ audio_written

\* line 187: thread.join() returns once the thread has ended
ThreadJoinable == thread = "finished"

\* lines 187-188 and 295-299: the call returns audio_written
OrpheusReturns ==
    /\ pc = "orpheus_await"
    /\ ThreadJoinable
    /\ thread' = "joined"
    /\ attempts' = Append(attempts,
                          [engine |-> "orpheus", ok |-> audio_written])
    /\ IF audio_written /\ exists(fs, temp_file_path[1])
              /\ getsize_positive(fs, temp_file_path[1])
       THEN /\ generated_successfully' = TRUE
            /\ pc' = "respond"
            /\ UNCHANGED <<fs, temp_file_path, responses, served>>
       ELSE OrpheusFailed(fs)
    /\ UNCHANGED <<language, synthesis_method_used, audio_bytes,
                   mkstemp_calls, created>>
    /\ UNCHANGED <<wf, frames_written, audio_written, output_file_path>>

\* line 306-307: the file is read into memory, or the else branch raises
ReadAudio ==
    /\ pc = "respond"
    /\ IF /\ generated_successfully
          /\ temp_file_path # None
          /\ exists(fs, temp_file_path[1])
          /\ getsize_positive(fs, temp_file_path[1])
       THEN /\ audio_bytes' = Some(fs[temp_file_path[1]])
            /\ pc' = "return"
            /\ UNCHANGED <<fs, responses, served>>
       ELSE /\ Raise(500, fs, temp_file_path)
            /\ UNCHANGED audio_bytes
    /\ UNCHANGED <<language, temp_file_path, synthesis_method_used,
                   generated_successfully, mkstemp_calls, attempts, created>>

\* line 308 and the finally block
ReturnAudio ==
    /\ pc = "return"
    /\ responses' = Append(responses,
                       StreamingResponse(audio_bytes[1], synthesis_method_used))
    /\ fs' = Finally(fs, temp_file_path)
    /\ pc' = "done"
    /\ served' = served + 1
    /\ UNCHANGED <<language, temp_file_path, synthesis_method_used,
                   generated_successfully, audio_bytes, mkstemp_calls,
                   attempts, created>>

\* the handler has returned; the worker waits for the next request
Complete ==
    /\ pc = "done"
    /\ pc' = "idle"
    /\ UNCHANGED <<language, temp_file_path, synthesis_method_used,
                   generated_successfully, audio_bytes, fs, mkstemp_calls,
                   attempts, created, responses, served>>

TtsInit ==
    /\ pc = "idle"
    /\ language = "en"
    /\ temp_file_path = None
    /\ synthesis_method_used = "none"
    /\ generated_successfully = FALSE
    /\ audio_bytes = None
    /\ fs = [p \in Paths |-> "absent"]
    /\ mkstemp_calls = 0
    /\ attempts = <<>>
    /\ created = {}
    /\ responses = <<>>
    /\ served = 0
    /\ thread = "idle"
    /\ wf = "none"
    /\ frames_written = 0
    /\ audio_written = FALSE
    /\ output_file_path = None

ApiIdle ==
    /\ api_pc = "off"
    /\ api_status = "none"
    /\ api_lines = <<>>
    /\ api_pos = 0
    /\ api_yielded = <<>>
    /\ api_raised = FALSE

\* a worker without speech-to-text engines and no transcription request
SttIdle ==
    /\ ENABLE_PARAKEET_STT = "false"
    /\ PARAKEET_STT_AVAILABLE = FALSE
    /\ parakeet_model_instance = FALSE
    /\ FASTER_WHISPER_AVAILABLE = FALSE
    /\ whisper_model_instance = FALSE
    /\ stt_pc = "off"
    /\ stt_language = <<>>
    /\ transcription_result = None
    /\ stt_engine_used = "none"
    /\ stt_calls = <<>>
    /\ stt_response = None

\* no concurrent requests
ConcIdle ==
    /\ creq = <<>>
    /\ cfiles = <<>>

\* the backend's questionnaire service is not part of the run
QsIdle ==
    /\ current_questionnaire = <<>>
    /\ current_answers = <<>>
    /\ current_question_index = -1
    /\ qs_last = <<>>
    /\ qs_returned = <<>>

\* no call of the local pipeline adapter is followed in detail
KkIdle ==
    /\ kk_pc = "off"
    /\ kk_emitted = <<>>
    /\ kk_audio_segments = <<>>
    /\ kk_file = <<>>
    /\ kk_result = <<>>

ExtIdle == ApiIdle /\ SttIdle /\ ConcIdle /\ QsIdle /\ KkIdle

AsmIdle ==
    /\ apc = "off"
    /\ buffer = <<>>
    /\ count = 0
    /\ delivered = 0
    /\ script = "none"
    /\ calls = <<>>
    /\ indices = <<>>
    /\ wav = <<>>

TokIdle ==
    /\ tok_text = <<>>
    /\ tok_numeral = 0
    /\ tok_index = 0
    /\ tok_done = FALSE
    /\ tok_result = None

Init == EngineInit /\ TtsInit /\ AsmIdle /\ TokIdle /\ ExtIdle

Next ==
    \/ (\E lang \in Languages : Request(lang))
          /\ UNCHANGED <<engine_vars, asm_vars, tok_vars, ext_vars>>
    \/ SelectLocal /\ UNCHANGED <<engine_vars, stream_vars, asm_vars, tok_vars, ext_vars>>
    \/ (\E pipe \in {"segments", "no_segments", "throws"},
           wr \in {"ok", "throws", "empty"} : KokoroReturns(pipe, wr))
          /\ UNCHANGED <<stream_vars, asm_vars, tok_vars, ext_vars>>
    \/ SelectStreaming
          /\ UNCHANGED <<engine_vars, stream_vars, asm_vars, tok_vars, ext_vars>>
    \/ OrpheusStart /\ UNCHANGED <<engine_vars, asm_vars, tok_vars, ext_vars>>
    \/ (\E ok \in BOOLEAN : WaveOpen(ok))
          /\ UNCHANGED <<engine_vars, asm_vars, tok_vars, ext_vars>>
    \/ WriteFrames /\ UNCHANGED <<engine_vars, asm_vars, tok_vars, ext_vars>>
    \/ (\E exc \in BOOLEAN : StreamEnds(exc))
          /\ UNCHANGED <<engine_vars, asm_vars, tok_vars, ext_vars>>
    \/ OrpheusReturns /\ UNCHANGED <<engine_vars, asm_vars, tok_vars, ext_vars>>
    \/ ReadAudio /\ UNCHANGED <<engine_vars, stream_vars, asm_vars, tok_vars, ext_vars>>
    \/ ReturnAudio /\ UNCHANGED <<engine_vars, stream_vars, asm_vars, tok_vars, ext_vars>>
    \/ Complete /\ UNCHANGED <<engine_vars, stream_vars, asm_vars, tok_vars, ext_vars>>

Spec == Init /\ [][Next]_vars

\* a step of a request that is being handled: the event loop runs the
\* handler and the operating system runs the worker thread, so a step that
\* stays possible is eventually taken; whether a further request arrives is
\* left open
HandlerStep == pc # "idle" /\ Next

SpecLive == Init /\ [][Next]_vars /\ WF_vars(HandlerStep)

(***************************************************************************)
(* Text as sequences of one-character strings                              *)
(***************************************************************************)
CUSTOM_TOKEN_PREFIX ==
    <<"<", "c", "u", "s", "t", "o", "m", "_", "t", "o", "k", "e", "n", "_">>

Whitespace == {" ", "\n"}
DigitChars == <<"0", "1", "2", "3", "4", "5", "6", "7", "8", "9">>
IsDigit(c) == \E d \in 1..10 : DigitChars[d] = c
DigitValue(c) == (CHOOSE d \in 1..10 : DigitChars[d] = c) - 1

\* str.strip()
RECURSIVE lstrip(_)
lstrip(s) == IF s # <<>> /\ Head(s) \in Whitespace THEN lstrip(Tail(s)) ELSE s
RECURSIVE rstrip(_)
rstrip(s) ==
    IF s # <<>> /\ s[Len(s)] \in Whitespace
    THEN rstrip(SubSeq(s, 1, Len(s) - 1)) ELSE s
strip(s) == rstrip(lstrip(s))

\* s[k:k+len(p)] == p, k counted from 0
MatchAt(s, p, k) ==
    /\ k >= 0
    /\ k + Len(p) <= Len(s)
    /\ SubSeq(s, k + 1, k + Len(p)) = p
startswith(s, p) == MatchAt(s, p, 0)
endswith(s, p) == MatchAt(s, p, Len(s) - Len(p))

\* str.rfind / str.find: the highest / lowest offset of p in s, or -1
rfind(s, p) ==
    LET hits == {k \in 0..(Len(s) - Len(p)) : MatchAt(s, p, k)}
    IN  IF hits = {} THEN -1 ELSE CHOOSE k \in hits : \A j \in hits : j <= k
find(s, p) ==
    LET hits == {k \in 0..(Len(s) - Len(p)) : MatchAt(s, p, k)}
    IN  IF hits = {} THEN -1 ELSE CHOOSE k \in hits : \A j \in hits : k <= j

\* str.split(sep)
RECURSIVE split(_, _)
split(s, sep) ==
    LET k == find(s, sep)
    IN  IF k = -1 THEN <<s>>
        ELSE <<SubSeq(s, 1, k)>>
                \o split(SubSeq(s, k + Len(sep) + 1, Len(s)), sep)

\* int(text): surrounding whitespace, an optional sign, decimal digits with
\* single underscores between them; None stands for ValueError
RECURSIVE DigitsValue(_, _)
DigitsValue(s, acc) ==
    IF s = <<>> THEN acc
    ELSE IF Head(s) = "_" THEN DigitsValue(Tail(s), acc)
    ELSE DigitsValue(Tail(s), 10 * acc + DigitValue(Head(s)))
int(text) ==
    LET t == strip(text)
        signed == t # <<>> /\ Head(t) \in {"+", "-"}
        body == IF signed THEN Tail(t) ELSE t
        wellformed ==
            /\ body # <<>>
            /\ \A k \in 1..Len(body) :
                  \/ IsDigit(body[k])
                  \/ /\ body[k] = "_"
                     /\ k > 1 /\ k < Len(body)
                     /\ IsDigit(body[k - 1]) /\ IsDigit(body[k + 1])
        magnitude == DigitsValue(body, 0)
    IN  IF ~wellformed THEN None
        ELSE IF signed /\ Head(t) = "-" THEN Some(0 - magnitude)
        ELSE Some(magnitude)

(***************************************************************************)
(* Token ID Recovery                                                       *)
(***************************************************************************)
TurnTokenWith(token_string, slot) ==
    LET t == strip(token_string)
        k == rfind(t, CUSTOM_TOKEN_PREFIX)
        v == int(SubSeq(t, k + Len(CUSTOM_TOKEN_PREFIX) + 1, Len(t) - 1))
    IN  IF k = -1 \/ ~endswith(t, <<">">>) \/ v = None THEN None
        ELSE Some(v[1] - 10 - (slot * 4096))
TurnTokenOffByOne(token_string, index) ==
    TurnTokenWith(token_string, (index + 1) % 7)
TurnTokenModEight(token_string, index) ==
    TurnTokenWith(token_string, index % 8)

TurnTokenNoDelimiter(token_string, index) ==
    LET t == strip(token_string)
        k == rfind(t, CUSTOM_TOKEN_PREFIX)
        rest == SubSeq(t, k + Len(CUSTOM_TOKEN_PREFIX) + 1, Len(t))
        v == int(IF endswith(rest, <<">">>)
                 THEN SubSeq(rest, 1, Len(rest) - 1) ELSE rest)
    IN  IF k = -1 \/ v = None THEN None
        ELSE Some(v[1] - 10 - ((index % 7) * 4096))

turn_token_into_id(token_string, index) ==
    LET t == strip(token_string)
        last_token_start == rfind(t, CUSTOM_TOKEN_PREFIX)
    IN  IF last_token_start = -1 THEN None
        ELSE LET last_token == SubSeq(t, last_token_start + 1, Len(t))
             IN  IF /\ startswith(last_token, CUSTOM_TOKEN_PREFIX)
                    /\ endswith(last_token, <<">">>)
                 THEN LET number_str ==
                              SubSeq(last_token, Len(CUSTOM_TOKEN_PREFIX) + 1,
                                     Len(last_token) - 1)
                          n == int(number_str)
                      IN  IF n = None THEN None
                          ELSE Some(n[1] - 10 - ((index % 7) * 4096))
                 ELSE None

(***************************************************************************)
(* What the inference server sends                                         *)
(***************************************************************************)
\* str(n) for n >= 0
RECURSIVE str(_)
str(n) == IF n < 10 THEN <<DigitChars[n + 1]>>
          ELSE str(n \div 10) \o <<DigitChars[(n % 10) + 1]>>

Marker(n) == CUSTOM_TOKEN_PREFIX \o str(n) \o <<">">>

\* the numeral the codec emits for its c-th token: code 10 + c in slot c mod 7
CodecNumeral(c) == 10 + 4096 * (c % 7) + 10 + c

FragmentKinds ==
    {"good", "padded", "text_then", "double", "zero", "twenty",
     "text", "unterminated", "nonnumeric", "trailing"}

Fragment(kind, c) ==
    CASE kind = "good" -> Marker(CodecNumeral(c))
      [] kind = "padded" -> <<" ">> \o Marker(CodecNumeral(c)) \o <<"\n">>
      [] kind = "text_then" -> <<"h", "i">> \o Marker(CodecNumeral(c))
      [] kind = "double" -> Marker(CodecNumeral(c)) \o Marker(CodecNumeral(c + 1))
      [] kind = "zero" -> Marker(10 + 4096 * (c % 7))
      [] kind = "twenty" -> Marker(20)
      [] kind = "text" -> <<"h", "i">>
      [] kind = "unterminated" -> CUSTOM_TOKEN_PREFIX \o str(CodecNumeral(c))
      [] kind = "nonnumeric" -> CUSTOM_TOKEN_PREFIX \o <<"x", ">">>
      [] kind = "trailing" -> Marker(CodecNumeral(c)) \o <<"h", "i">>

\* what orpheus_decoder_convert_to_audio may return
DecoderOutcomes == {"bytes", "none", "empty"}

\* a fragment carries at most two markers: the decoder's outcome is drawn only
\* when one of the next two accepted tokens can invoke it
OutcomesFor(c) ==
    IF \E d \in (c + 1)..(c + 2) : d % 7 = 0 /\ d > 27
    THEN DecoderOutcomes ELSE {"none"}

(***************************************************************************)
(* The streaming assembler                                                 *)
(***************************************************************************)
FirstEntries(buf) == SubSeq(buf, 1, 28)

\* buffer[-28:]
LastEntries(buf) ==
    IF Len(buf) <= 28 THEN buf ELSE SubSeq(buf, Len(buf) - 27, Len(buf))

DecodeDueAfterWarmup(c) == c % 7 = 0 /\ c > 28

\* line 161
DecodeDue(c) == c % 7 = 0 /\ c > 27

ValidNonNegative(token_id) == token_id # None /\ token_id[1] >= 0

\* line 159
Valid(token_id) == token_id # None /\ token_id[1] > 0

AppendTrimmed(buf, token_id) == LastEntries(Append(buf, token_id))

\* line 160: buffer.append(token_id)
AppendToken(buf, token_id) == Append(buf, token_id)

WritableUnlessNone(out) == out # "none"

\* lines 162-163 and 179: a chunk is yielded unless it is None, and written
\* only if it is non-empty bytes
Writable(out) == out = "bytes"

WriteFramesFirst(w, cnt) == <<cnt>> \o w

\* line 179: wf.writeframes appends the chunk decoded at counter cnt
writeframes(w, cnt) == Append(w, cnt)

\* one candidate marker of a chunk, recovered with the given index:
\* lines 157-163, and the write of line 180
AcceptPartAt(st, part, out, index) ==
    LET full_token_text ==
            IF ~startswith(part, CUSTOM_TOKEN_PREFIX)
            THEN CUSTOM_TOKEN_PREFIX \o part ELSE part
        token_id == turn_token_into_id(full_token_text, index)
    IN  IF Valid(token_id)
        THEN LET buf == AppendToken(st.buffer, token_id[1])
                 cnt == st.count + 1
                 due == DecodeDue(cnt)
             IN  [buffer |-> buf,
                  count |-> cnt,
                  indices |-> Append(st.indices, index),
                  calls |-> IF due
                            THEN Append(st.calls,
                                        [window |-> LastEntries(buf),
                                         count |-> cnt, out |-> out])
                            ELSE st.calls,
                  wav |-> IF due /\ Writable(out)
                          THEN writeframes(st.wav, cnt) ELSE st.wav]
        ELSE st

AcceptPartAtNextIndex(st, part, out) == AcceptPartAt(st, part, out, st.count + 1)

\* line 158: the index is the count of accepted tokens
AcceptPart(st, part, out) == AcceptPartAt(st, part, out, st.count)

\* the for loop over the parts of one chunk, from part i (counted from 1)
RECURSIVE ProcessParts(_, _, _, _, _)
ProcessParts(st, parts, i, skip_first, out) ==
    IF i > Len(parts) THEN st
    ELSE IF i = 1 /\ skip_first
    THEN ProcessParts(st, parts, i + 1, skip_first, out)
    ELSE ProcessParts(AcceptPart(st, parts[i], out), parts, i + 1,
                      skip_first, out)

ProcessChunkLastMarkerOnly(st, chunk, out) == AcceptPart(st, chunk, out)

\* lines 153-156
ProcessChunk(st, chunk, out) ==
    ProcessParts(st, split(chunk, CUSTOM_TOKEN_PREFIX), 1,
                 ~startswith(chunk, CUSTOM_TOKEN_PREFIX), out)

\* line 151: without the decoder the generator yields b'' once and returns
AsmUnavailable ==
    /\ apc = "streaming"
    /\ ~DECODER_AVAILABLE
    /\ apc' = "closed"
    /\ UNCHANGED <<buffer, count, delivered, script, calls, indices, wav>>

\* the API delivers one more fragment and the assembler consumes it
Deliver(kind, out) ==
    /\ apc = "streaming"
    /\ DECODER_AVAILABLE
    /\ delivered < MaxFragments
    /\ count < MaxTokens
    /\ kind = "twenty" => script \in {"none", "twenty"}
    /\ LET st == ProcessChunk([buffer |-> buffer, count |-> count,
                               indices |-> indices, calls |-> calls,
                               wav |-> wav],
                              Fragment(kind, count), out)
       IN  /\ buffer' = st.buffer
           /\ count' = st.count
           /\ indices' = st.indices
           /\ calls' = st.calls
           /\ wav' = st.wav
    /\ delivered' = delivered + 1
    /\ script' = IF script \in {"none", kind} THEN kind ELSE "mixed"
    /\ UNCHANGED apc

\* [DONE], or the server closes the stream
EndOfStream ==
    /\ apc = "streaming"
    /\ DECODER_AVAILABLE
    /\ apc' = "closed"
    /\ UNCHANGED <<buffer, count, delivered, script, calls, indices, wav>>

AsmInit ==
    /\ apc = "streaming"
    /\ buffer = <<>>
    /\ count = 0
    /\ delivered = 0
    /\ script = "none"
    /\ calls = <<>>
    /\ indices = <<>>
    /\ wav = <<>>

InitAsm ==
    /\ EngineInit
    /\ kokoro_pipelines = KokoroCodes
    /\ TtsInit
    /\ AsmInit
    /\ TokIdle
    /\ ExtIdle

NextAsm ==
    \/ AsmUnavailable /\ UNCHANGED <<engine_vars, tts_vars, stream_vars, tok_vars, ext_vars>>
    \/ (\E kind \in FragmentKinds, out \in OutcomesFor(count) :
           Deliver(kind, out))
          /\ UNCHANGED <<engine_vars, tts_vars, stream_vars, tok_vars, ext_vars>>
    \/ EndOfStream /\ UNCHANGED <<engine_vars, tts_vars, stream_vars, tok_vars, ext_vars>>

SpecAsm == InitAsm /\ [][NextAsm]_vars

(***************************************************************************)
(* Token ID Recovery applied to one marker at one index                    *)
(***************************************************************************)
Numerals == {0, 9, 10, 11, 20, 4105, 4106, 4107, 8212, 24586, 24587, 28000}
Decorations == {"bare", "padded", "after_text", "after_marker"}

Decorated(n, deco) ==
    CASE deco = "bare" -> Marker(n)
      [] deco = "padded" -> <<" ">> \o Marker(n) \o <<" ", "\n">>
      [] deco = "after_text" -> <<"h", "i", " ">> \o Marker(n)
      [] deco = "after_marker" -> Marker(7) \o Marker(n)

Recover ==
    /\ ~tok_done
    /\ tok_result' = turn_token_into_id(tok_text, tok_index)
    /\ tok_done' = TRUE
    /\ UNCHANGED <<tok_text, tok_numeral, tok_index>>

InitTok ==
    /\ EngineInit
    /\ kokoro_pipelines = KokoroCodes
    /\ DECODER_AVAILABLE
    /\ TtsInit
    /\ AsmIdle
    /\ tok_numeral \in Numerals
    /\ tok_index \in 0..MaxIndex
    /\ \E deco \in Decorations : tok_text = Decorated(tok_numeral, deco)
    /\ tok_done = FALSE
    /\ tok_result = None
    /\ ExtIdle

NextTok == Recover /\ UNCHANGED <<engine_vars, tts_vars, stream_vars, asm_vars, ext_vars>>

SpecTok == InitTok /\ [][NextTok]_vars

(***************************************************************************)
(* The API token stream client: generate_tokens_from_api                   *)
(***************************************************************************)
MaxLines == 3

\* how requests.post / raise_for_status can end
PostOutcomes == {"ok", "connection_error", "timeout", "http_error"}

CaughtOnlyConnectionError(outcome) == outcome = "connection_error"

\* line 116: ConnectionError, Timeout and HTTPError are RequestExceptions
RequestExceptionCaught(outcome) ==
    outcome \in {"connection_error", "timeout", "http_error"}

\* JSON documents the server may send in a data: line; a missing key is None
Documents ==
    {[choices |-> Some(<<[delta |-> Some([content |-> Some("a")]),
                          text |-> None]>>)],
     [choices |-> Some(<<[delta |-> Some([content |-> Some("")]),
                          text |-> None]>>)],
     [choices |-> Some(<<[delta |-> None, text |-> Some("a")]>>)],
     [choices |-> Some(<<[delta |-> Some([content |-> None]),
                          text |-> Some("a")]>>)],
     [choices |-> Some(<<[delta |-> Some([content |-> Some("a")]),
                          text |-> Some("b")]>>)],
     [choices |-> Some(<<>>)],
     [choices |-> None]}

\* the lines of the event stream: a blank line, a line that does not start
\* with "data: ", and data: lines carrying [DONE], text that is not JSON, a
\* JSON value that is not an object, or a document
Lines ==
    {[type |-> "blank"], [type |-> "other"],
     [type |-> "data", body |-> "[DONE]"],
     [type |-> "data", body |-> "malformed"],
     [type |-> "data", body |-> "scalar"]}
    \cup {[type |-> "data", body |-> "json", data |-> d] : d \in Documents}

JSONDecodeErrorPropagates == FALSE

\* lines 135-136
JSONDecodeErrorCaught == TRUE

\* lines 128-134: what one parsed document makes the generator yield
TokenText(data) ==
    IF /\ data.choices # None
       /\ data.choices[1] # <<>>
       /\ data.choices[1][1].delta # None
       /\ data.choices[1][1].delta[1].content # None
    THEN data.choices[1][1].delta[1].content
    ELSE IF /\ data.choices # None
            /\ data.choices[1] # <<>>
            /\ data.choices[1][1].text # None
    THEN data.choices[1][1].text
    ELSE None

\* lines 122-136: the body of the loop for one line
ProcessLine(line) ==
    LET skip == [yield |-> None, stop |-> FALSE, raise |-> FALSE]
    IN  IF line.type # "data" THEN skip
        ELSE IF line.body = "[DONE]"
        THEN [yield |-> None, stop |-> TRUE, raise |-> FALSE]
        ELSE IF line.body = "malformed"
        THEN IF JSONDecodeErrorCaught THEN skip
             ELSE [yield |-> None, stop |-> TRUE, raise |-> TRUE]
        ELSE IF line.body = "scalar"
        THEN \* 'choices' in data raises TypeError, which nothing catches
             [yield |-> None, stop |-> TRUE, raise |-> TRUE]
        ELSE LET token_text == TokenText(line.data)
             IN  IF token_text # None /\ token_text[1] # ""
                 THEN [yield |-> token_text, stop |-> FALSE, raise |-> FALSE]
                 ELSE skip

\* lines 113-120: the request is sent; a RequestException ends the
\* generator with nothing yielded
ApiPost(outcome) ==
    /\ api_pc = "request"
    /\ api_status' = outcome
    /\ IF outcome = "ok"
       THEN api_pc' = "streaming" /\ UNCHANGED api_raised
       ELSE /\ api_pc' = "ended"
            /\ api_raised' = ~RequestExceptionCaught(outcome)
    /\ UNCHANGED <<api_lines, api_pos, api_yielded>>

\* the server sends one more line, whether or not the client still reads
ServerSends(line) ==
    /\ api_status = "ok"
    /\ Len(api_lines) < MaxLines
    /\ api_lines' = Append(api_lines, line)
    /\ UNCHANGED <<api_pc, api_status, api_pos, api_yielded, api_raised>>

\* the server closes the stream
ServerCloses ==
    /\ api_status = "ok"
    /\ api_status' = "closed"
    /\ UNCHANGED <<api_pc, api_lines, api_pos, api_yielded, api_raised>>

\* line 121: the client takes the next line and runs the loop body
ClientReads ==
    /\ api_pc = "streaming"
    /\ api_pos < Len(api_lines)
    /\ LET r == ProcessLine(api_lines[api_pos + 1])
       IN  /\ api_yielded' =
                 IF r.yield # None
                 THEN Append(api_yielded,
                             [line |-> api_pos + 1, text |-> r.yield[1]])
                 ELSE api_yielded
           /\ api_pc' = IF r.stop THEN "ended" ELSE "streaming"
           /\ api_raised' = r.raise
    /\ api_pos' = api_pos + 1
    /\ UNCHANGED <<api_status, api_lines>>

\* line 121: iter_lines is exhausted once the closed stream has been read
ClientEnds ==
    /\ api_pc = "streaming"
    /\ api_status = "closed"
    /\ api_pos = Len(api_lines)
    /\ api_pc' = "ended"
    /\ UNCHANGED <<api_status, api_lines, api_pos, api_yielded, api_raised>>

ApiInit ==
    /\ api_pc = "request"
    /\ api_status = "none"
    /\ api_lines = <<>>
    /\ api_pos = 0
    /\ api_yielded = <<>>
    /\ api_raised = FALSE

InitApi ==
    /\ EngineInit
    /\ kokoro_pipelines = KokoroCodes
    /\ DECODER_AVAILABLE
    /\ TtsInit
    /\ AsmIdle
    /\ TokIdle
    /\ ApiInit
    /\ SttIdle
    /\ ConcIdle
    /\ QsIdle
    /\ KkIdle

NextApi ==
    \/ (\E outcome \in PostOutcomes : ApiPost(outcome))
          /\ UNCHANGED other_than_api
    \/ (\E line \in Lines : ServerSends(line))
          /\ UNCHANGED other_than_api
    \/ ServerCloses
          /\ UNCHANGED other_than_api
    \/ ClientReads
          /\ UNCHANGED other_than_api
    \/ ClientEnds
          /\ UNCHANGED other_than_api

SpecApi == InitApi /\ [][NextApi]_vars

(***************************************************************************)
(* /transcribe-audio: transcribe_audio_endpoint                            *)
(***************************************************************************)
UpperChars == <<"A", "B", "C", "D", "E", "F", "G", "H", "I", "J", "K", "L", "M",
                "N", "O", "P", "Q", "R", "S", "T", "U", "V", "W", "X", "Y", "Z">>
LowerChars == <<"a", "b", "c", "d", "e", "f", "g", "h", "i", "j", "k", "l", "m",
                "n", "o", "p", "q", "r", "s", "t", "u", "v", "w", "x", "y", "z">>

\* str.lower()
lower(s) ==
    [i \in 1..Len(s) |->
        IF \E k \in 1..Len(UpperChars) : UpperChars[k] = s[i]
        THEN LowerChars[CHOOSE k \in 1..Len(UpperChars) : UpperChars[k] = s[i]]
        ELSE s[i]]

\* the language form field of the requests
SttLanguages ==
    {<<"e", "n">>, <<"E", "N", "-", "U", "S">>, <<"d", "e">>,
     <<"a", "u", "t", "o">>, <<"A", "u", "t", "o">>}

IsEnglishCaseSensitive(lang) == startswith(lang, <<"e", "n">>)

\* line 336
IsEnglishRequest(lang) == startswith(lower(lang), <<"e", "n">>)

\* line 377: a language that is empty or "auto" gives no hint
LangParam(lang) ==
    IF lang # <<>> /\ lower(lang) # <<"a", "u", "t", "o">>
    THEN Some(lang) ELSE None

\* what _parakeet_model_instance.transcribe may give: an exception, an empty
\* list, or a list whose first result is a string, an object with a text, an
\* object with hypotheses, or something else
ParakeetOutputs ==
    {[raised |-> TRUE, list |-> <<>>], [raised |-> FALSE, list |-> <<>>],
     [raised |-> FALSE, list |-> <<[kind |-> "other", text |-> ""]>>]} \cup
    {[raised |-> FALSE, list |-> <<[kind |-> k, text |-> t]>>] :
        k \in {"str", "text", "hypotheses"}, t \in {"hello", ""}}

\* what _whisper_model_instance.transcribe may give: an exception or segments
WhisperOutputs ==
    {[raised |-> TRUE, text |-> ""], [raised |-> FALSE, text |-> "hello"],
     [raised |-> FALSE, text |-> ""]}

\* lines 346-355: full_transcription_text (stripped text, or None)
ExtractText(output) ==
    IF output.list # <<>>
       /\ output.list[1].kind \in {"str", "text", "hypotheses"}
    THEN Some(output.list[1].text)
    ELSE None

SttRaise(status) ==
    /\ stt_response' = Some([status |-> status])
    /\ stt_pc' = "done"

\* lines 324-336: a request arrives and its upload is saved
SttRequest(lang) ==
    /\ stt_pc = "idle"
    /\ stt_language' = lang
    /\ transcription_result' = None
    /\ stt_engine_used' = "none"
    /\ stt_calls' = <<>>
    /\ stt_response' = None
    /\ stt_pc' = "select_parakeet"

\* line 338
SelectParakeet ==
    /\ stt_pc = "select_parakeet"
    /\ IF /\ IsEnglishRequest(stt_language)
          /\ PARAKEET_STT_AVAILABLE
          /\ parakeet_model_instance
       THEN /\ stt_engine_used' = "parakeet"
            /\ stt_pc' = "parakeet_await"
       ELSE /\ stt_pc' = "select_whisper"
            /\ UNCHANGED stt_engine_used
    /\ UNCHANGED <<stt_language, transcription_result, stt_calls, stt_response>>

\* lines 341-370: Parakeet returns or throws
ParakeetReturns(output) ==
    /\ stt_pc = "parakeet_await"
    /\ stt_calls' = Append(stt_calls,
                           [engine |-> "parakeet", hint |-> None,
                            raised |-> output.raised,
                            text |-> IF output.raised THEN None
                                     ELSE ExtractText(output)])
    /\ transcription_result' =
          IF ~output.raised /\ ExtractText(output) # None
          THEN Some([transcription |-> ExtractText(output)[1],
                     engine |-> "parakeet"])
          ELSE None
    /\ stt_pc' = "select_whisper"
    /\ UNCHANGED <<stt_language, stt_engine_used, stt_response>>

\* lines 372-395
SelectWhisper ==
    /\ stt_pc = "select_whisper"
    /\ IF transcription_result # None
       THEN /\ stt_pc' = "respond"
            /\ UNCHANGED <<stt_engine_used, stt_response>>
       ELSE IF FASTER_WHISPER_AVAILABLE /\ whisper_model_instance
       THEN /\ stt_engine_used' = "faster_whisper"
            /\ stt_pc' = "whisper_await"
            /\ UNCHANGED stt_response
       ELSE IF /\ IsEnglishRequest(stt_language)
               /\ ~PARAKEET_STT_AVAILABLE
               /\ ENABLE_PARAKEET_STT = "true"
       THEN SttRaise(503) /\ UNCHANGED stt_engine_used
       ELSE /\ stt_pc' = "respond"
            /\ UNCHANGED <<stt_engine_used, stt_response>>
    /\ UNCHANGED <<stt_language, transcription_result, stt_calls>>

\* lines 376-392: Whisper returns its segments or throws
WhisperReturns(output) ==
    /\ stt_pc = "whisper_await"
    /\ stt_calls' = Append(stt_calls,
                           [engine |-> "faster_whisper",
                            hint |-> LangParam(stt_language),
                            raised |-> output.raised,
                            text |-> IF output.raised THEN None
                                     ELSE Some(output.text)])
    /\ IF output.raised
       THEN SttRaise(500) /\ UNCHANGED transcription_result
       ELSE /\ transcription_result' =
                  Some([transcription |-> output.text,
                        engine |-> "faster_whisper"])
            /\ stt_pc' = "respond"
            /\ UNCHANGED stt_response
    /\ UNCHANGED <<stt_language, stt_engine_used>>

\* lines 397-408
SttRespond ==
    /\ stt_pc = "respond"
    /\ IF transcription_result # None
       THEN stt_response' = Some([status |-> 200])
       ELSE stt_response' = Some([status |-> 503])
    /\ stt_pc' = "done"
    /\ UNCHANGED <<stt_language, transcription_result, stt_engine_used,
                   stt_calls>>

\* lines 414-421: the finally block has run and the response is sent
SttComplete ==
    /\ stt_pc = "done"
    /\ stt_pc' = "idle"
    /\ UNCHANGED <<stt_language, transcription_result, stt_engine_used,
                   stt_calls, stt_response>>

\* lines 229-266: module initialisation of the two STT engines
SttEngineInit ==
    /\ ENABLE_PARAKEET_STT \in {"unset", "true", "false"}
    /\ PARAKEET_STT_AVAILABLE \in
          IF ENABLE_PARAKEET_STT \in {"unset", "true"}
          THEN BOOLEAN ELSE {FALSE}
    /\ parakeet_model_instance = PARAKEET_STT_AVAILABLE
    /\ FASTER_WHISPER_AVAILABLE \in BOOLEAN
    /\ whisper_model_instance = FASTER_WHISPER_AVAILABLE

SttInit ==
    /\ SttEngineInit
    /\ stt_pc = "idle"
    /\ stt_language = <<>>
    /\ transcription_result = None
    /\ stt_engine_used = "none"
    /\ stt_calls = <<>>
    /\ stt_response = None

InitStt ==
    /\ EngineInit
    /\ kokoro_pipelines = KokoroCodes
    /\ DECODER_AVAILABLE
    /\ TtsInit
    /\ AsmIdle
    /\ TokIdle
    /\ ApiIdle
    /\ SttInit
    /\ ConcIdle
    /\ QsIdle
    /\ KkIdle

NextStt ==
    \/ (\E lang \in SttLanguages : SttRequest(lang))
          /\ UNCHANGED <<stt_engine_vars, other_than_stt>>
    \/ SelectParakeet /\ UNCHANGED <<stt_engine_vars, other_than_stt>>
    \/ (\E output \in ParakeetOutputs : ParakeetReturns(output))
          /\ UNCHANGED <<stt_engine_vars, other_than_stt>>
    \/ SelectWhisper /\ UNCHANGED <<stt_engine_vars, other_than_stt>>
    \/ (\E output \in WhisperOutputs : WhisperReturns(output))
          /\ UNCHANGED <<stt_engine_vars, other_than_stt>>
    \/ SttRespond /\ UNCHANGED <<stt_engine_vars, other_than_stt>>
    \/ SttComplete /\ UNCHANGED <<stt_engine_vars, other_than_stt>>

SpecStt == InitStt /\ [][NextStt]_vars

(***************************************************************************)
(* Two synthesis requests on the streaming path at the same time           *)
(***************************************************************************)
MaxConcFragments == 24

Requests2 == {1, 2}

\* a marker of request r: its codes are 1000 * (r - 1) above those of the
\* first request, so that the tokens of the two requests differ
ReqMarker(r, c) == Marker(CodecNumeral(c) + 1000 * (r - 1))

\* the fragments the inference server streams to each request
Pattern(r) ==
    IF r = 1 THEN <<"double">> ELSE <<"double", "zero", "double", "good">>

StreamFragment(r, d, c) ==
    LET kind == Pattern(r)[(d % Len(Pattern(r))) + 1]
    IN  CASE kind = "double" -> ReqMarker(r, c) \o ReqMarker(r, c + 1)
          [] kind = "good" -> ReqMarker(r, c)
          [] kind = "zero" -> Marker(10 + 4096 * (c % 7))

\* what the decoder returns while request r consumes its d-th fragment
DecoderOutcomeFor(r, d) ==
    IF r = 1 \/ d % 2 = 0 THEN "bytes" ELSE "none"

EmptyAssembler ==
    [buffer |-> <<>>, count |-> 0, indices |-> <<>>, calls |-> <<>>,
     wav |-> <<>>]

AssemblerOfFirst(rq, r) == rq[1].st

\* line 152: buffer and count are locals of each generator
AssemblerOf(rq, r) == rq[r].st

\* line 281: mkstemp gives a name no other open request has
Mkstemp2(r) ==
    /\ creq[r].pc = "idle"
    /\ creq' = [creq EXCEPT
                   ![r].pc = "streaming",
                   ![r].path = 1 + Cardinality({q \in Requests2 :
                                                   creq[q].path # 0})]
    /\ UNCHANGED cfiles

\* lines 153-163 and 178-180: request r consumes its next fragment and
\* writes the frames it decoded to its own file
Deliver2(r) ==
    /\ creq[r].pc = "streaming"
    /\ creq[r].delivered < MaxConcFragments
    /\ LET old == AssemblerOf(creq, r)
           st == ProcessChunk(old,
                              StreamFragment(r, creq[r].delivered, old.count),
                              DecoderOutcomeFor(r, creq[r].delivered))
           frames == [k \in 1..(Len(st.wav) - Len(old.wav)) |->
                         [req |-> r, count |-> st.wav[Len(old.wav) + k]]]
       IN  /\ creq' = [creq EXCEPT ![r].st = st,
                                   ![r].delivered = @ + 1]
           /\ cfiles' = [cfiles EXCEPT ![creq[r].path] = @ \o frames]

\* lines 177-183: the stream of request r ends and its WAV is closed
End2(r) ==
    /\ creq[r].pc = "streaming"
    /\ creq' = [creq EXCEPT ![r].pc = "closed"]
    /\ UNCHANGED cfiles

ConcInit ==
    /\ creq = [r \in Requests2 |->
                  [pc |-> "idle", path |-> 0, delivered |-> 0,
                   st |-> EmptyAssembler]]
    /\ cfiles = [p \in Requests2 |-> <<>>]

InitConc ==
    /\ EngineInit
    /\ kokoro_pipelines = KokoroCodes
    /\ DECODER_AVAILABLE
    /\ TtsInit
    /\ AsmIdle
    /\ TokIdle
    /\ ApiIdle
    /\ SttIdle
    /\ ConcInit
    /\ QsIdle
    /\ KkIdle

NextConc ==
    \/ (\E r \in Requests2 : Mkstemp2(r)) /\ UNCHANGED other_than_conc
    \/ (\E r \in Requests2 : Deliver2(r)) /\ UNCHANGED other_than_conc
    \/ (\E r \in Requests2 : End2(r)) /\ UNCHANGED other_than_conc

SpecConc == InitConc /\ [][NextConc]_vars

(***************************************************************************)
(* The questionnaire service of the backend: questionnaire_service.py      *)
(***************************************************************************)
MaxQuestionIndex == 3

QuestionIds == {"Q1", "Q2", "Q3"}

\* the files of the questionnaires directory and what lies in each; a name
\* outside the domain is a file that does not exist
QuestionnaireFiles ==
    [a |-> [json |-> TRUE, valid |-> TRUE, questions |-> <<"Q1", "Q2">>],
     b |-> [json |-> TRUE, valid |-> TRUE, questions |-> <<"Q3", "Q1">>],
     twice |-> [json |-> TRUE, valid |-> TRUE,
                questions |-> <<"Q2", "Q3", "Q2">>],
     empty |-> [json |-> TRUE, valid |-> TRUE, questions |-> <<>>],
     nojson |-> [json |-> FALSE, valid |-> FALSE, questions |-> <<>>],
     nodata |-> [json |-> TRUE, valid |-> FALSE, questions |-> <<>>]]

FileNames == DOMAIN QuestionnaireFiles \cup {"missing"}

\* the Answer payloads of the callers
Answers ==
    [question_id : QuestionIds, parsed_value : {1, 2}, is_confirmed : BOOLEAN]

\* the state of the service as one record
Service(q, a, i) == [questionnaire |-> q, answers |-> a, index |-> i]

LoadClearsBeforeParsing(sv, file_name) ==
    IF file_name \notin DOMAIN QuestionnaireFiles
    THEN [sv |-> sv, raised |-> TRUE]
    ELSE LET f == QuestionnaireFiles[file_name]
         IN  IF ~f.json \/ ~f.valid
             THEN [sv |-> Service(sv.questionnaire, <<>>, -1),
                   raised |-> TRUE]
             ELSE [sv |-> Service(Some([name |-> file_name,
                                        questions |-> f.questions]),
                                  <<>>, -1),
                   raised |-> FALSE]

\* lines 48-68
load_questionnaire_from_file(sv, file_name) ==
    IF file_name \notin DOMAIN QuestionnaireFiles
    THEN \* line 52: FileNotFoundError
         [sv |-> sv, raised |-> TRUE]
    ELSE LET f == QuestionnaireFiles[file_name]
         IN  IF ~f.json \/ ~f.valid
             THEN \* json.load or Questionnaire(**data) raises before the
                  \* first assignment: lines 65-68
                  [sv |-> sv, raised |-> TRUE]
             ELSE [sv |-> Service(Some([name |-> file_name,
                                        questions |-> f.questions]),
                                  <<>>, -1),
                   raised |-> FALSE]

GetNextWrapsAround(sv) ==
    IF sv.questionnaire = None
    THEN [sv |-> sv, result |-> "completed"]
    ELSE LET i == sv.index + 1
             qs == sv.questionnaire[1].questions
         IN  IF i < Len(qs)
             THEN [sv |-> [sv EXCEPT !.index = i], result |-> qs[i + 1]]
             ELSE [sv |-> [sv EXCEPT !.index = -1], result |-> "completed"]

\* lines 73-83: the result is the question returned, or "completed"
get_next_question_details(sv) ==
    IF sv.questionnaire = None
    THEN [sv |-> sv, result |-> "completed"]
    ELSE LET i == sv.index + 1
             qs == sv.questionnaire[1].questions
         IN  IF i < Len(qs)
             THEN [sv |-> [sv EXCEPT !.index = i], result |-> qs[i + 1]]
             ELSE [sv |-> [sv EXCEPT !.index = i], result |-> "completed"]

\* with a lower limit of -1, questions[-1] is the last question
CurrentQuestionFromMinusOne(sv) ==
    IF sv.questionnaire # None
       /\ -1 <= sv.index
       /\ sv.index < Len(sv.questionnaire[1].questions)
    THEN Some(sv.questionnaire[1].questions[
                 IF sv.index = -1 THEN Len(sv.questionnaire[1].questions)
                 ELSE sv.index + 1])
    ELSE None

\* lines 85-88
get_current_question_details_for_answer(sv) ==
    IF sv.questionnaire # None
       /\ 0 <= sv.index
       /\ sv.index < Len(sv.questionnaire[1].questions)
    THEN Some(sv.questionnaire[1].questions[sv.index + 1])
    ELSE None

\* lines 108-114: the first stored answer of the same question, or 0
FirstIndexOf(answers, question_id) ==
    IF \E i \in 1..Len(answers) : answers[i].question_id = question_id
    THEN CHOOSE i \in 1..Len(answers) :
            /\ answers[i].question_id = question_id
            /\ \A j \in 1..(i - 1) : answers[j].question_id # question_id
    ELSE 0

StoreAlwaysAppends(sv, answer_payload) ==
    LET current_q_details == get_current_question_details_for_answer(sv)
    IN  IF current_q_details = None
           \/ current_q_details[1] # answer_payload.question_id
        THEN [sv |-> sv, raised |-> TRUE]
        ELSE [sv |-> [sv EXCEPT !.answers =
                         Append(@, [answer_payload EXCEPT
                                       !.is_confirmed = TRUE])],
              raised |-> FALSE]

\* lines 96-116
store_confirmed_answer(sv, answer_payload) ==
    LET current_q_details == get_current_question_details_for_answer(sv)
    IN  IF current_q_details = None
           \/ current_q_details[1] # answer_payload.question_id
        THEN [sv |-> sv, raised |-> TRUE]
        ELSE LET confirmed == [answer_payload EXCEPT !.is_confirmed = TRUE]
                 i == FirstIndexOf(sv.answers, answer_payload.question_id)
             IN  [sv |-> [sv EXCEPT !.answers =
                             IF i # 0 THEN [@ EXCEPT ![i] = confirmed]
                             ELSE Append(@, confirmed)],
                  raised |-> FALSE]

\* lines 121-132: the rows of the CSV, one per confirmed answer
get_results_as_csv_string(sv) ==
    SelectSeq(sv.answers, LAMBDA ans : ans.is_confirmed)

ServiceNow ==
    Service(current_questionnaire, current_answers, current_question_index)

SetService(sv) ==
    /\ current_questionnaire' = sv.questionnaire
    /\ current_answers' = sv.answers
    /\ current_question_index' = sv.index

\* what the last call was: its name, its argument, whether it raised, and
\* what it returned
Call(op, arg, value, raised, result) ==
    [op |-> op, arg |-> arg, value |-> value, raised |-> raised,
     result |-> result]

Load(file_name) ==
    LET r == load_questionnaire_from_file(ServiceNow, file_name)
    IN  /\ SetService(r.sv)
        /\ qs_last' = Call("load", file_name, 0, r.raised, "")
        /\ qs_returned' = IF r.raised THEN qs_returned ELSE <<>>

GetNext ==
    /\ current_question_index < MaxQuestionIndex
    /\ LET r == get_next_question_details(ServiceNow)
       IN  /\ SetService(r.sv)
           /\ qs_last' = Call("get_next", "", 0, FALSE, r.result)
           /\ qs_returned' = IF current_questionnaire = None THEN qs_returned
                             ELSE Append(qs_returned, r.result)

Store(answer_payload) ==
    LET r == store_confirmed_answer(ServiceNow, answer_payload)
    IN  /\ SetService(r.sv)
        /\ qs_last' = Call("store", answer_payload.question_id,
                           answer_payload.parsed_value, r.raised, "")
        /\ UNCHANGED qs_returned

\* lines 41-46 and 134-135: initialize_service / reset_questionnaire_state
Reset ==
    /\ SetService(Service(None, <<>>, -1))
    /\ qs_last' = Call("reset", "", 0, FALSE, "")
    /\ qs_returned' = <<>>

\* lines 121-132
ExportCsv ==
    /\ qs_last' = Call("csv", "", Len(get_results_as_csv_string(ServiceNow)),
                       FALSE, "")
    /\ UNCHANGED <<current_questionnaire, current_answers,
                   current_question_index, qs_returned>>

\* lines 34-36: the module state at import
QsInit ==
    /\ current_questionnaire = None
    /\ current_answers = <<>>
    /\ current_question_index = -1
    /\ qs_last = Call("init", "", 0, FALSE, "")
    /\ qs_returned = <<>>

InitQs ==
    /\ EngineInit
    /\ kokoro_pipelines = KokoroCodes
    /\ DECODER_AVAILABLE
    /\ TtsInit
    /\ AsmIdle
    /\ TokIdle
    /\ ApiIdle
    /\ SttIdle
    /\ ConcIdle
    /\ QsInit
    /\ KkIdle

NextQs ==
    \/ (\E file_name \in FileNames : Load(file_name))
          /\ UNCHANGED other_than_qs
    \/ GetNext /\ UNCHANGED other_than_qs
    \/ (\E answer_payload \in Answers : Store(answer_payload))
          /\ UNCHANGED other_than_qs
    \/ Reset /\ UNCHANGED other_than_qs
    \/ ExportCsv /\ UNCHANGED other_than_qs

SpecQs == InitQs /\ [][NextQs]_vars

(***************************************************************************)
(* The worker: both endpoints served by one process                        *)
(***************************************************************************)
\* the engines of both endpoints are initialised at import; requests of the
\* two endpoints are then handled in any interleaving
InitWorker ==
    /\ EngineInit
    /\ TtsInit
    /\ AsmIdle
    /\ TokIdle
    /\ ApiIdle
    /\ SttInit
    /\ ConcIdle
    /\ QsIdle
    /\ KkIdle

NextWorker ==
    \/ Next
    \/ NextStt

SpecWorker == InitWorker /\ [][NextWorker]_vars

(***************************************************************************)
(* The local pipeline adapter in detail: generate_speech_with_kokoro       *)
(***************************************************************************)
MaxSegments == 3

\* what the pipeline may emit as audio_data_chunk: a tensor (on the GPU), an
\* array, None, or something else; tensors and arrays carry samples
SampleArrays == {<<>>, <<1>>, <<2, 3>>}

Segments ==
    [type : {"tensor_cuda", "ndarray"}, samples : SampleArrays]
    \cup [type : {"none", "other"}, samples : {<<>>}]

\* lines 199-204: processed_audio_np, or None for a chunk that is skipped
ProcessedAudio(seg) ==
    IF seg.type \in {"tensor_cuda", "ndarray"} THEN Some(seg.samples)
    ELSE None

CollectFirst(audio_segments, seg) ==
    IF ProcessedAudio(seg) # None /\ Len(ProcessedAudio(seg)[1]) > 0
    THEN <<ProcessedAudio(seg)[1]>> \o audio_segments
    ELSE audio_segments

\* line 205: audio_segments.append for a chunk with samples
Collect(audio_segments, seg) ==
    IF ProcessedAudio(seg) # None /\ Len(ProcessedAudio(seg)[1]) > 0
    THEN Append(audio_segments, ProcessedAudio(seg)[1])
    ELSE audio_segments

\* np.concatenate
RECURSIVE concatenate(_)
concatenate(arrays) ==
    IF arrays = <<>> THEN <<>>
    ELSE arrays[1] \o concatenate(Tail(arrays))

\* line 191 and 195-196: the call starts the pipeline, or returns False when
\* the pipeline of the language is not loaded
KkStart(code) ==
    /\ kk_pc = "idle"
    /\ IF ~KOKORO_TTS_AVAILABLE \/ code \notin kokoro_pipelines
       THEN kk_pc' = "done" /\ kk_result' = Some(FALSE)
       ELSE kk_pc' = "generating" /\ kk_result' = None
    /\ UNCHANGED <<kk_emitted, kk_audio_segments, kk_file>>

\* lines 197-206: the pipeline emits one more chunk
KkEmit(seg) ==
    /\ kk_pc = "generating"
    /\ Len(kk_emitted) < MaxSegments
    /\ kk_emitted' = Append(kk_emitted, seg)
    /\ kk_audio_segments' = Collect(kk_audio_segments, seg)
    /\ UNCHANGED <<kk_pc, kk_file, kk_result>>

\* line 215: the pipeline raises
KkPipelineThrows ==
    /\ kk_pc = "generating"
    /\ kk_pc' = "done"
    /\ kk_result' = Some(FALSE)
    /\ UNCHANGED <<kk_emitted, kk_audio_segments, kk_file>>

\* lines 207-214: the pipeline is exhausted; wr is what sf.write does with
\* the concatenated audio ("ok", "throws", "empty")
KkFinish(wr) ==
    /\ kk_pc = "generating"
    /\ kk_pc' = "done"
    /\ IF kk_audio_segments = <<>>
       THEN \* line 207: return None, then line 210
            kk_result' = Some(FALSE) /\ UNCHANGED kk_file
       ELSE LET full_audio_np == concatenate(kk_audio_segments)
            IN  IF Len(full_audio_np) = 0
                THEN kk_result' = Some(FALSE) /\ UNCHANGED kk_file
                ELSE IF wr = "ok"
                THEN kk_file' = Some(full_audio_np) /\ kk_result' = Some(TRUE)
                ELSE IF wr = "empty"
                THEN kk_file' = Some(<<>>) /\ kk_result' = Some(FALSE)
                ELSE kk_result' = Some(FALSE) /\ UNCHANGED kk_file
    /\ UNCHANGED <<kk_emitted, kk_audio_segments>>

KkInit ==
    /\ kk_pc = "idle"
    /\ kk_emitted = <<>>
    /\ kk_audio_segments = <<>>
    /\ kk_file = None
    /\ kk_result = None

InitKokoro ==
    /\ EngineInit
    /\ TtsInit
    /\ AsmIdle
    /\ TokIdle
    /\ ApiIdle
    /\ SttIdle
    /\ ConcIdle
    /\ QsIdle
    /\ KkInit

NextKokoro ==
    \/ (\E code \in KokoroCodes : KkStart(code)) /\ UNCHANGED other_than_kk
    \/ (\E seg \in Segments : KkEmit(seg)) /\ UNCHANGED other_than_kk
    \/ KkPipelineThrows /\ UNCHANGED other_than_kk
    \/ (\E wr \in {"ok", "throws", "empty"} : KkFinish(wr))
          /\ UNCHANGED other_than_kk

SpecKokoro == InitKokoro /\ [][NextKokoro]_vars

(***************************************************************************)
(* Properties of /synthesize-speech (checked under Spec)                   *)
(***************************************************************************)
LocalPipelineLoaded(lang) ==
    /\ lang \in DOMAIN KOKORO_LANGUAGE_CONFIG
    /\ KOKORO_LANGUAGE_CONFIG[lang] \in kokoro_pipelines
LocalUsable(lang) == KOKORO_TTS_AVAILABLE /\ LocalPipelineLoaded(lang)
StreamingUsable(lang) == ORPHEUS_TTS_AVAILABLE /\ lang \in orpheus_api_configs

InFlight == {"select_local", "kokoro_await", "select_streaming",
             "orpheus_await", "respond", "return"}

\* the engines invoked so far in this request, the running one included
Invoked ==
    [i \in 1..Len(attempts) |-> attempts[i].engine]
       \o (IF pc = "kokoro_await" THEN <<"kokoro">>
           ELSE IF pc = "orpheus_await" THEN <<"orpheus">> ELSE <<>>)

AttemptFailed(engine) ==
    \E i \in 1..Len(attempts) :
        attempts[i].engine = engine /\ ~attempts[i].ok

\* C1: when the local pipeline was tried for a language the streaming engine
\* also serves and its synthesis failed, the request goes on to invoke the
\* streaming engine, and a streaming success is answered with its audio.
C1_LocalFailureFallsBackToStreaming ==
    (pc = "done" /\ StreamingUsable(language) /\ AttemptFailed("kokoro"))
       => /\ \E i \in 1..Len(attempts) : attempts[i].engine = "orpheus"
          /\ \A i \in 1..Len(attempts) :
                (attempts[i].engine = "orpheus" /\ attempts[i].ok)
                   => responses[1].kind = "audio"

\* C2: with neither engine available at startup, every finished request is
\* answered with status 503.
C2_NoEngineAnswers503 ==
    (pc = "done" /\ ~KOKORO_TTS_AVAILABLE /\ ~ORPHEUS_TTS_AVAILABLE)
       => responses[1].status = 503

\* C3: a request for a language with no loaded local pipeline and no
\* streaming configuration never invokes an engine, never creates a temporary
\* file, never waits on an engine or reads a file, and ends with a 400 error.
C3_UnconfiguredLanguageIs400 ==
    (pc # "idle" /\ ~LocalPipelineLoaded(language)
               /\ language \notin orpheus_api_configs)
       => /\ Invoked = <<>>
          /\ created = {}
          /\ \A p \in Paths : ~exists(fs, p)
          /\ pc \in {"select_local", "select_streaming", "done"}
          /\ pc = "done" => responses = <<HTTPException(400)>>

C3_Witness ==
    /\ pc = "done"
    /\ language = "es"
    /\ KOKORO_TTS_AVAILABLE
    /\ ~LocalPipelineLoaded("es")
    /\ responses = <<HTTPException(400)>>

\* C4: a request has no outcome while it runs and exactly one when it is
\* done; audio is answered only after an engine reported success and with a
\* non-empty body; an error is 400 exactly when no engine was attempted and
\* 500 when an engine was attempted and failed.
C4_OneTerminalOutcome ==
    /\ Len(responses) <= 1
    /\ pc = "done" => Len(responses) = 1
    /\ pc \in InFlight => responses = <<>>
    /\ \A k \in 1..Len(responses) :
          LET r == responses[k]
          IN  /\ r.kind = "audio" =>
                    /\ \E i \in 1..Len(attempts) : attempts[i].ok
                    /\ r.body \notin {"absent", "empty"}
              /\ r.kind = "error" =>
                    /\ r.status = 400 <=> attempts = <<>>
                    /\ attempts # <<>> =>
                          /\ r.status = 500
                          /\ ~attempts[Len(attempts)].ok

C4_Witness ==
    /\ pc = "done"
    /\ responses = <<HTTPException(500)>>
    /\ attempts = <<[engine |-> "orpheus", ok |-> FALSE]>>

\* C5: once a request is done no temporary file exists, whatever the
\* outcome; while the audio is held in memory before the response is built,
\* the file it was read from still exists and holds those bytes.
C5_TempFileGoneAtCompletion ==
    /\ pc \in {"done", "idle"} => \A p \in Paths : ~exists(fs, p)
    /\ pc = "return" =>
          /\ temp_file_path # None
          /\ exists(fs, temp_file_path[1])
          /\ audio_bytes = Some(fs[temp_file_path[1]])
    /\ \A k \in 1..Len(responses) :
          responses[k].kind = "audio" => responses[k].body = "audio"

C5_Witness ==
    /\ pc = "done"
    /\ created # {}
    /\ responses[1].kind = "audio"
    /\ \A p \in created : ~exists(fs, p)

\* C6: the first engine invoked in a request is the local pipeline when it is
\* available and loaded for the language, the streaming engine otherwise; the
\* streaming engine is never invoked after a success of the local pipeline.
C6_LocalFirstThenStreaming ==
    /\ Invoked # <<>> =>
          Invoked[1] = (IF LocalUsable(language) THEN "kokoro" ELSE "orpheus")
    /\ \A i \in 1..Len(attempts) :
          (attempts[i].engine = "kokoro" /\ attempts[i].ok)
             => \A j \in 1..Len(Invoked) : j > i => Invoked[j] # "orpheus"

C6_Witness ==
    /\ pc = "done"
    /\ StreamingUsable(language)
    /\ attempts = <<[engine |-> "kokoro", ok |-> TRUE]>>
    /\ responses[1].kind = "audio"

(***************************************************************************)
(* Properties of the streaming assembler (checked under SpecAsm)           *)
(***************************************************************************)
\* C7: every decoder invocation happened at a counter that is a multiple of
\* 7 greater than 27 and received exactly the 28 token IDs accepted last at
\* that time, in acceptance order.
C7_DecoderGetsLast28 ==
    \A k \in 1..Len(calls) :
        /\ calls[k].count % 7 = 0
        /\ calls[k].count > 27
        /\ Len(calls[k].window) = 28
        /\ calls[k].count <= Len(buffer)
        /\ \A j \in 1..28 :
              calls[k].window[j] = buffer[calls[k].count - 28 + j]

C7_Witness ==
    /\ Len(calls) = 2
    /\ calls[2].count = 35
    /\ calls[2].window[1] # calls[1].window[1]

\* C8: after N accepted tokens the decoder has been invoked
\* floor((N-28)/7)+1 times when N >= 28, and never when N < 28.
C8_DecodeCount ==
    Len(calls) = (IF count >= 28 THEN ((count - 28) \div 7) + 1 ELSE 0)

C8_Witness ==
    /\ count = 35
    /\ Len(calls) = 2
    /\ script = "mixed"

\* C9 as stated: after <custom_token_20> was delivered 35 times in a row, 35
\* tokens are accepted and the decoder was invoked exactly twice.
C9_Original ==
    (script = "twenty" /\ delivered = 35) => (count = 35 /\ Len(calls) = 2)

\* C9 amended: 35 markers in a row, the k-th carrying the numeral of slot
\* k mod 7, are all accepted with the decoder invoked exactly twice; of any
\* run of <custom_token_20> only the first is accepted (ID 10 at index 0) and
\* the decoder is not invoked.
C9_SlotNumeralsDecodeTwice ==
    /\ (script = "good" /\ delivered = 35) =>
          /\ count = 35
          /\ \A k \in 1..35 : buffer[k] > 0
          /\ Len(calls) = 2
    /\ (script = "twenty" /\ delivered >= 1) =>
          /\ count = 1
          /\ buffer = <<10>>
          /\ calls = <<>>

C9_Witness ==
    /\ script = "good"
    /\ delivered = 35
    /\ Len(calls) = 2

(***************************************************************************)
(* Properties of Token ID Recovery (checked under SpecTok)                 *)
(***************************************************************************)
\* C10: for a well-formed marker with numeral n at index i the recovered ID
\* is n - 10 - 4096 * (i mod 7), and the same text at index i + 7 gives the
\* same ID.
C10_RecoveryFormula ==
    tok_done =>
       /\ tok_result = Some(tok_numeral - 10 - 4096 * (tok_index % 7))
       /\ turn_token_into_id(tok_text, tok_index + 7) = tok_result

C10_Witness ==
    /\ tok_done
    /\ tok_index = 8
    /\ tok_numeral = 4107
    /\ tok_result = Some(1)

\* C11: when the streaming path has written zero audio frames (whatever
\* the cause: no fragment, no decode, an empty stream), it reports failure,
\* the request is answered with the 500 error and never with audio, and the
\* file it created is gone.
C11_ZeroFramesIsFailure ==
    (thread = "joined" /\ frames_written = 0) =>
        /\ ~audio_written
        /\ attempts[Len(attempts)] = [engine |-> "orpheus", ok |-> FALSE]
        /\ ~generated_successfully
        /\ pc \in {"done", "idle"}
        /\ responses = <<HTTPException(500)>>
        /\ \A p \in created : ~exists(fs, p)

\* a stream that ended normally with no frame: the WAV was opened and closed
\* with its header only, then rejected and removed
C11_Witness ==
    /\ thread = "joined"
    /\ wf = "closed"
    /\ frames_written = 0
    /\ created # {}
    /\ responses = <<HTTPException(500)>>

\* C15: a streaming-path request leaves the call only after the worker
\* thread has ended and been joined and the WAV is no longer open; what the
\* endpoint reads and returns is the finalised file, never a partial one.
C15_ResponseAfterStreamFinished ==
    /\ (synthesis_method_used = "orpheus"
            /\ pc \in {"respond", "return", "done"}) =>
          /\ thread = "joined"
          /\ wf # "open"
    /\ (synthesis_method_used = "orpheus" /\ pc \in {"respond", "return"}) =>
          /\ wf = "closed"
          /\ fs[temp_file_path[1]] = "audio"
    /\ (synthesis_method_used = "orpheus" /\ pc = "return") =>
          audio_bytes = Some("audio")
    /\ (synthesis_method_used = "orpheus" /\ responses # <<>>
            /\ responses[1].kind = "audio") =>
          /\ responses[1].body = "audio"
          /\ thread = "joined"
          /\ wf = "closed"

C15_Witness ==
    /\ synthesis_method_used = "orpheus"
    /\ pc = "done"
    /\ responses # <<>>
    /\ responses[1].kind = "audio"
    /\ frames_written = MaxFrames
    /\ thread = "joined"

\* C17: a candidate whose recovered value is zero or negative is discarded:
\* the step that consumes it leaves the window and the counter as they were;
\* and every entry of the window is a positive integer in every state.
NonPositiveKinds == {"zero", "twenty"}

C17_NonPositiveDiscarded ==
    /\ [](\A k \in 1..Len(buffer) : buffer[k] > 0)
    /\ [][\A kind \in NonPositiveKinds, out \in DecoderOutcomes :
            LET v == turn_token_into_id(Fragment(kind, count), count)
            IN  (Deliver(kind, out) /\ v # None /\ v[1] <= 0)
                    => (buffer' = buffer /\ count' = count)]_vars

\* <custom_token_20> three times: accepted at index 0 with value 10, then
\* recovered as 10 - 4096 at index 1 and discarded, twice
C17_Witness ==
    /\ script = "twenty"
    /\ delivered = 3
    /\ count = 1
    /\ buffer = <<10>>

\* C18: a fragment without a well-formed marker (no prefix, no closing
\* delimiter, a numeral that does not parse, text after the delimiter) gives
\* no token: the step that consumes it changes neither the counter nor the
\* window nor the decoder calls, raises nothing, and the assembler goes on
\* consuming fragments.
MalformedKinds == {"text", "unterminated", "nonnumeric", "trailing"}

C18_MalformedIsNoToken ==
    /\ [](\A kind \in MalformedKinds :
             turn_token_into_id(Fragment(kind, count), count) = None)
    /\ [](script \in MalformedKinds => count = 0 /\ buffer = <<>>)
    /\ [][\A kind \in MalformedKinds, out \in DecoderOutcomes :
            Deliver(kind, out) =>
                /\ buffer' = buffer
                /\ count' = count
                /\ calls' = calls
                /\ wav' = wav
                /\ apc' = "streaming"]_vars

\* two fragments with an unterminated marker, both consumed, and the
\* assembler still streaming
C18_Witness ==
    /\ script = "unterminated"
    /\ delivered = 2
    /\ count = 0
    /\ buffer = <<>>
    /\ apc = "streaming"

\* C19 as stated: a fragment of several concatenated markers contributes at
\* most the token of its last marker, so a stream of such fragments accepts
\* at most one token per fragment.
C19_Original ==
    script = "double" => count <= delivered

\* C19, amended: Token ID Recovery applied to a text of several markers
\* honours the last one only, but the assembler splits a fragment on the
\* marker prefix and recovers every marker: a fragment of two concatenated
\* valid markers contributes two tokens, in order.
C19_EveryMarkerOfAFragmentCounts ==
    /\ turn_token_into_id(Fragment("double", count), count)
          = turn_token_into_id(Marker(CodecNumeral(count + 1)), count)
    /\ script = "double" =>
          /\ count = 2 * delivered
          /\ Len(buffer) = count
          /\ \A k \in 1..Len(buffer) : buffer[k] = 10 + (k - 1)

C19_Witness ==
    /\ script = "double"
    /\ delivered = 2
    /\ buffer = <<10, 11, 12, 13>>

\* C20: the index given to Token ID Recovery is the number of tokens
\* accepted so far: the k-th accepted token (from 0) is recovered with index
\* k, whatever number of candidates was rejected before it.
C20_IndexIsAcceptedCount ==
    /\ Len(indices) = count
    /\ Len(buffer) = count
    /\ \A k \in 1..Len(indices) : indices[k] = k - 1
    /\ script # "twenty" => \A k \in 1..Len(buffer) : buffer[k] = 10 + (k - 1)

\* rejected candidates came in between, and the ninth accepted token was
\* still recovered with index 8
C20_Witness ==
    /\ delivered > count + 2
    /\ count = 9
    /\ indices[9] = 8
    /\ buffer[9] = 18

(***************************************************************************)
(* Properties of the API token stream client (checked under SpecApi)       *)
(***************************************************************************)
\* C12: when the request fails at request time (connection error, timeout
\* or error status), the client ends with no fragment yielded and no
\* exception raised to its caller.
C12_RequestFailureYieldsNothing ==
    api_status \in {"connection_error", "timeout", "http_error"} =>
        /\ api_pc = "ended"
        /\ api_yielded = <<>>
        /\ api_pos = 0
        /\ ~api_raised

C12_Witness ==
    /\ api_status = "http_error"
    /\ api_pc = "ended"
    /\ api_yielded = <<>>

\* the fragment a line carries, if any: the delta content of its first
\* choice, else the text of its first choice
Carries(line) ==
    IF line.type = "data" /\ line.body = "json" THEN TokenText(line.data)
    ELSE None

IsDone(line) == line.type = "data" /\ line.body = "[DONE]"
IsMalformed(line) == line.type = "data" /\ line.body = "malformed"
NotAnObject(line) == line.type = "data" /\ line.body = "scalar"

\* C13: fragments are yielded in the order of their lines, at most one per
\* line, each the text its data: line carries; no line after a [DONE] line
\* yields anything; a data: line with malformed JSON raises nothing and
\* yields nothing, and every later line read that carries text (before any
\* [DONE]) still yields it.
C13_OrderDoneAndMalformed ==
    /\ \A i, j \in 1..Len(api_yielded) :
          i < j => api_yielded[i].line < api_yielded[j].line
    /\ \A i \in 1..Len(api_yielded) :
          LET y == api_yielded[i]
          IN  /\ y.line \in 1..api_pos
              /\ Carries(api_lines[y.line]) = Some(y.text)
              /\ \A d \in 1..(y.line - 1) : ~IsDone(api_lines[d])
    /\ \A j \in 1..api_pos :
          (/\ Carries(api_lines[j]) # None
           /\ Carries(api_lines[j])[1] # ""
           /\ \A d \in 1..(j - 1) :
                 ~IsDone(api_lines[d]) /\ ~NotAnObject(api_lines[d]))
          => \E i \in 1..Len(api_yielded) : api_yielded[i].line = j
    /\ api_raised => \E d \in 1..api_pos : NotAnObject(api_lines[d])
    /\ \A d \in 1..Len(api_lines) : IsDone(api_lines[d]) => api_pos <= d

\* a malformed line, then a line whose fragment is yielded, then [DONE]
C13_Witness ==
    /\ Len(api_lines) = 3
    /\ IsMalformed(api_lines[1])
    /\ IsDone(api_lines[3])
    /\ api_yielded = <<[line |-> 2, text |-> "a"]>>
    /\ api_pc = "ended"
    /\ api_pos = 3

\* lines sent after [DONE] are never read
C13_WitnessAfterDone ==
    /\ Len(api_lines) = 3
    /\ IsDone(api_lines[2])
    /\ Carries(api_lines[3]) = Some("a")
    /\ api_yielded = <<[line |-> 1, text |-> "a"]>>
    /\ api_pc = "ended"
    /\ api_status = "closed"

(***************************************************************************)
(* Properties of /transcribe-audio (checked under SpecStt)                 *)
(***************************************************************************)
\* the requests whose language is English, and those asking for detection
EnglishLanguages == {<<"e", "n">>, <<"E", "N", "-", "U", "S">>}
AutoLanguages == {<<"a", "u", "t", "o">>, <<"A", "u", "t", "o">>}

ParakeetPresent == PARAKEET_STT_AVAILABLE /\ parakeet_model_instance
WhisperPresent == FASTER_WHISPER_AVAILABLE /\ whisper_model_instance

\* past the point where the engine of that name would have been called
PastParakeet == stt_pc \in {"select_whisper", "whisper_await", "respond", "done"}

\* C14: an English request calls Parakeet first when it is present, and
\* calls Whisper only if Parakeet is absent, threw or gave no text; a request
\* in another language never calls Parakeet and calls Whisper directly, with
\* the requested language as hint, or no hint when the language is "auto".
C14_ParakeetFirstForEnglish ==
    /\ Len(stt_calls) <= 2
    /\ \A k \in 1..Len(stt_calls) :
          stt_calls[k].engine = "parakeet" =>
              k = 1 /\ stt_language \in EnglishLanguages /\ ParakeetPresent
    /\ (stt_language \in EnglishLanguages /\ ParakeetPresent /\ PastParakeet)
          => Len(stt_calls) >= 1 /\ stt_calls[1].engine = "parakeet"
    /\ \A k \in 1..Len(stt_calls) :
          stt_calls[k].engine = "faster_whisper" =>
              /\ WhisperPresent
              /\ \/ k = 1 /\ ~(stt_language \in EnglishLanguages
                               /\ ParakeetPresent)
                 \/ /\ k = 2
                    /\ stt_calls[1].engine = "parakeet"
                    /\ stt_calls[1].raised \/ stt_calls[1].text = None
              /\ stt_calls[k].hint =
                    IF stt_language \in AutoLanguages
                    THEN None ELSE Some(stt_language)
    /\ (stt_language \notin EnglishLanguages /\ stt_language # <<>>
            /\ WhisperPresent /\ stt_pc \in {"respond", "done"})
          => /\ Len(stt_calls) = 1
             /\ stt_calls[1].engine = "faster_whisper"

\* an English request served by Whisper after Parakeet threw
C14_Witness ==
    /\ stt_language = <<"E", "N", "-", "U", "S">>
    /\ Len(stt_calls) = 2
    /\ stt_calls[1].engine = "parakeet"
    /\ stt_calls[1].raised
    /\ stt_calls[2].engine = "faster_whisper"
    /\ stt_calls[2].hint = Some(stt_language)
    /\ stt_response = Some([status |-> 200])

\* a request for detection served by Whisper without a hint, Parakeet
\* being present
C14_WitnessAuto ==
    /\ stt_language = <<"A", "u", "t", "o">>
    /\ ParakeetPresent
    /\ Len(stt_calls) = 1
    /\ stt_calls[1].engine = "faster_whisper"
    /\ stt_calls[1].hint = None
    /\ stt_response = Some([status |-> 200])

\* Parakeet gave an empty text: it is the answer, Whisper is not called
C14_WitnessEmptyText ==
    /\ stt_language \in EnglishLanguages
    /\ WhisperPresent
    /\ Len(stt_calls) = 1
    /\ stt_calls[1].engine = "parakeet"
    /\ stt_calls[1].text = Some("")
    /\ stt_response = Some([status |-> 200])

(***************************************************************************)
(* Properties of concurrent requests (checked under SpecConc)              *)
(***************************************************************************)
\* request r run alone over its first n fragments
RECURSIVE SoloRun(_, _)
SoloRun(r, n) ==
    IF n = 0 THEN EmptyAssembler
    ELSE LET before == SoloRun(r, n - 1)
         IN  ProcessChunk(before, StreamFragment(r, n - 1, before.count),
                          DecoderOutcomeFor(r, n - 1))

\* the token values request r can produce
TokensOf(r) ==
    {10 + c + 1000 * (r - 1) : c \in 0..(2 * MaxConcFragments + 1)}

\* C16: however the steps of two concurrent requests interleave, each
\* request has its own file, its window, counter, decoder invocations and
\* frames are those of the same request run alone, and no token or frame of
\* the other request is in its window or file.
C16_RequestsAreIndependent ==
    /\ \A r, q \in Requests2 :
          (r # q /\ creq[r].path # 0) => creq[r].path # creq[q].path
    /\ \A r \in Requests2 :
          LET solo == SoloRun(r, creq[r].delivered)
          IN  /\ creq[r].st.buffer = solo.buffer
              /\ creq[r].st.count = solo.count
              /\ creq[r].st.calls = solo.calls
              /\ creq[r].st.wav = solo.wav
              /\ creq[r].path # 0 =>
                    cfiles[creq[r].path] =
                        [k \in 1..Len(solo.wav) |->
                            [req |-> r, count |-> solo.wav[k]]]
    /\ \A r \in Requests2 :
          /\ \A k \in 1..Len(creq[r].st.buffer) :
                creq[r].st.buffer[k] \in TokensOf(r)
          /\ \A c \in 1..Len(creq[r].st.calls), k \in 1..28 :
                creq[r].st.calls[c].window[k] \in TokensOf(r)

\* both requests are streaming, each has had the decoder invoked and has
\* frames in its file; the second request was the first to take a file
C16_Witness ==
    /\ creq[1].pc = "streaming"
    /\ creq[2].pc = "streaming"
    /\ Len(creq[1].st.calls) >= 1
    /\ Len(creq[2].st.calls) >= 1
    /\ Len(cfiles[creq[1].path]) >= 1
    /\ Len(cfiles[creq[2].path]) >= 1
    /\ creq[2].path = 1

\* the counters of the decoder invocations that returned audio, in order
RECURSIVE AudioCounts(_)
AudioCounts(cs) ==
    IF cs = <<>> THEN <<>>
    ELSE IF cs[1].out = "bytes"
         THEN <<cs[1].count>> \o AudioCounts(Tail(cs))
         ELSE AudioCounts(Tail(cs))

IsPrefix(s, t) == Len(s) <= Len(t) /\ SubSeq(t, 1, Len(s)) = s

\* C21: the fragments are consumed in arrival order (the tokens of the
\* codec appear in the window in the order sent), successive decoder
\* invocations carry counters that grow by 7, and the frames in the WAV are
\* in the order of the invocations that produced them; a step only extends
\* the calls and the frames at their end.
C21_ArrivalAndDecodeOrder ==
    /\ [](\A k \in 1..(Len(calls) - 1) :
             calls[k + 1].count = calls[k].count + 7)
    /\ [](\A k \in 1..(Len(wav) - 1) : wav[k] < wav[k + 1])
    /\ [](wav = AudioCounts(calls))
    /\ [](script # "twenty" =>
             \A k \in 1..(Len(buffer) - 1) : buffer[k] < buffer[k + 1])
    /\ [][/\ IsPrefix(calls, calls')
          /\ IsPrefix(wav, wav')
          /\ delivered' \in {delivered, delivered + 1}]_vars

\* two decoder invocations that both returned audio, in a stream where
\* some candidates were rejected
C21_Witness ==
    /\ Len(calls) = 2
    /\ calls[1].count = 28
    /\ calls[2].count = 35
    /\ wav = <<28, 35>>
    /\ delivered > count

\* C22: a decoder invocation that returns nothing or empty bytes writes no
\* frame, and the counter and the window are not reset: whatever the
\* decoder returned, the k-th invocation happens at counter 28 + 7(k-1) and
\* the window holds every accepted token.
C22_NoDataWritesNothing ==
    /\ \A k \in 1..Len(calls) :
          /\ calls[k].count = 28 + 7 * (k - 1)
          /\ calls[k].out \in {"none", "empty"} =>
                \A j \in 1..Len(wav) : wav[j] # calls[k].count
          /\ calls[k].out = "bytes" =>
                \E j \in 1..Len(wav) : wav[j] = calls[k].count
    /\ Len(wav) <= Len(calls)
    /\ Len(buffer) = count
    /\ Len(calls) > 0 => calls[Len(calls)].count <= count

\* the decoder returned empty bytes at 28 and was still invoked at 35,
\* where it returned audio
C22_Witness ==
    /\ Len(calls) = 2
    /\ calls[1].out = "empty"
    /\ calls[2].out = "bytes"
    /\ calls[2].count = 35
    /\ wav = <<35>>
    /\ count >= 35

\* the decoder returned nothing at 28 and at 35: no frame at all
C22_WitnessNone ==
    /\ Len(calls) = 2
    /\ calls[1].out = "none"
    /\ calls[2].out = "none"
    /\ wav = <<>>

\* C26: the window is as long as the accepted-token counter; a step only
\* appends to the window, by as many entries as the counter grows, and no
\* entry already in the window changes.
C26_WindowLengthIsCounter ==
    /\ [](Len(buffer) = count)
    /\ [][/\ IsPrefix(buffer, buffer')
          /\ Len(buffer') - Len(buffer) = count' - count
          /\ count' >= count]_vars
    /\ [][\A kind \in FragmentKinds \ {"double"}, out \in DecoderOutcomes :
             Deliver(kind, out) => count' \in {count, count + 1}]_vars

\* more than 28 tokens accepted and none dropped from the window
C26_Witness ==
    /\ count = 30
    /\ Len(buffer) = 30
    /\ buffer[1] = 10
    /\ buffer[30] = 39

(***************************************************************************)
(* Properties of the questionnaire service (checked under SpecQs)          *)
(***************************************************************************)
\* the questions of the loaded questionnaire
LoadedQuestions ==
    IF current_questionnaire = None THEN <<>>
    ELSE current_questionnaire[1].questions

\* a question is current: one is loaded and the index points at it
HasCurrentQuestion ==
    /\ current_questionnaire # None
    /\ current_question_index >= 0
    /\ current_question_index < Len(LoadedQuestions)

IdsOf(answers) == [i \in 1..Len(answers) |-> answers[i].question_id]

\* C27: the stored answers hold at most one answer per question_id, all
\* confirmed (so the CSV has a row for each); a store for a question_id
\* that already has an answer replaces that answer where it stands and
\* changes neither the number nor the order of the stored answers.
C27_OneConfirmedAnswerPerQuestion ==
    /\ [](\A i, j \in 1..Len(current_answers) :
             i # j => current_answers[i].question_id
                        # current_answers[j].question_id)
    /\ [](\A i \in 1..Len(current_answers) : current_answers[i].is_confirmed)
    /\ [](get_results_as_csv_string(ServiceNow) = current_answers)
    /\ [][(/\ qs_last'.op = "store"
           /\ ~qs_last'.raised
           /\ \E i \in 1..Len(current_answers) :
                 current_answers[i].question_id = qs_last'.arg)
          => /\ IdsOf(current_answers') = IdsOf(current_answers)
             /\ \A i \in 1..Len(current_answers) :
                   current_answers'[i] =
                      IF current_answers[i].question_id = qs_last'.arg
                      THEN [question_id |-> qs_last'.arg,
                            parsed_value |-> qs_last'.value,
                            is_confirmed |-> TRUE]
                      ELSE current_answers[i]]_vars

\* the first of two answers was confirmed again with another value
C27_Witness ==
    /\ Len(current_answers) = 2
    /\ qs_last.op = "store"
    /\ ~qs_last.raised
    /\ qs_last.arg = "Q2"
    /\ current_answers[1] = [question_id |-> "Q2", parsed_value |-> 2,
                             is_confirmed |-> TRUE]
    /\ current_answers[2].question_id = "Q3"

\* C28: store_confirmed_answer raises, and leaves the stored answers as
\* they were, exactly when no question is current (nothing loaded, index
\* -1, index past the last question) or the answer's question_id is not the
\* id of the current question.
C28_StoreRejectsWrongQuestion ==
    [][qs_last'.op = "store" =>
          /\ qs_last'.raised <=>
                \/ ~HasCurrentQuestion
                \/ LoadedQuestions[current_question_index + 1] # qs_last'.arg
          /\ qs_last'.raised =>
                UNCHANGED <<current_questionnaire, current_answers,
                            current_question_index>>]_vars

\* a store raised right after a load, with the index still -1
C28_Witness ==
    /\ qs_last.op = "store"
    /\ qs_last.raised
    /\ current_questionnaire # None
    /\ Len(LoadedQuestions) = 2
    /\ current_question_index = -1
    /\ qs_last.arg = LoadedQuestions[2]

\* a store raised after the last question, answers already stored
C28_WitnessPastEnd ==
    /\ qs_last.op = "store"
    /\ qs_last.raised
    /\ current_question_index = Len(LoadedQuestions)
    /\ Len(current_answers) = 2

\* C29: after a load of n questions the calls of get_next_question_details
\* return the questions 1..n in order, once each, then the completed
\* outcome for ever; the index only grows between loads and resets; after
\* the completed outcome no question is current.
C29_QuestionsInOrderOnce ==
    /\ [](current_questionnaire # None =>
             /\ Len(qs_returned) = current_question_index + 1
             /\ \A k \in 1..Len(qs_returned) :
                   qs_returned[k] = IF k <= Len(LoadedQuestions)
                                    THEN LoadedQuestions[k]
                                    ELSE "completed")
    /\ [](\A k \in 1..Len(qs_returned) :
             qs_returned[k] = "completed" => ~HasCurrentQuestion)
    /\ [][qs_last'.op \notin {"load", "reset"} =>
             current_question_index' >= current_question_index]_vars
    /\ [][qs_last'.op = "get_next" =>
             current_question_index' \in
                {current_question_index, current_question_index + 1}]_vars

\* two questions returned, then the completed outcome twice
C29_Witness ==
    /\ current_questionnaire # None
    /\ qs_returned = <<"Q3", "Q1", "completed", "completed">>
    /\ current_question_index = 3

\* C30: a load that succeeds replaces the questionnaire, empties the
\* answers and sets the index to -1; a load of a missing file, of a file
\* that is not JSON or of data that does not validate raises and changes
\* nothing.
GoodFiles == {"a", "b", "twice", "empty"}

C30_LoadAllOrNothing ==
    [][qs_last'.op = "load" =>
          /\ qs_last'.raised <=> qs_last'.arg \notin GoodFiles
          /\ qs_last'.raised =>
                UNCHANGED <<current_questionnaire, current_answers,
                            current_question_index>>
          /\ ~qs_last'.raised =>
                /\ current_questionnaire' # None
                /\ current_questionnaire'[1].name = qs_last'.arg
                /\ current_answers' = <<>>
                /\ current_question_index' = -1]_vars

\* a failed load left a questionnaire in progress and its answer in place
C30_Witness ==
    /\ qs_last.op = "load"
    /\ qs_last.raised
    /\ qs_last.arg = "nodata"
    /\ current_questionnaire # None
    /\ current_question_index = 1
    /\ Len(current_answers) = 1

\* a successful load dropped the answers of the questionnaire before it
C30_WitnessReplaced ==
    /\ qs_last.op = "load"
    /\ ~qs_last.raised
    /\ qs_last.arg = "b"
    /\ current_answers = <<>>
    /\ current_question_index = -1

(***************************************************************************)
(* Properties of the local pipeline adapter (checked under SpecKokoro)     *)
(***************************************************************************)
\* the samples of the emitted chunks that are arrays or tensors with
\* samples, joined in the order emitted
RECURSIVE UsableAudio(_)
UsableAudio(emitted) ==
    IF emitted = <<>> THEN <<>>
    ELSE (IF emitted[1].type \in {"tensor_cuda", "ndarray"}
          THEN emitted[1].samples ELSE <<>>)
         \o UsableAudio(Tail(emitted))

NoUsableSegment(emitted) ==
    \A k \in 1..Len(emitted) :
        \/ emitted[k].type \in {"none", "other"}
        \/ emitted[k].samples = <<>>

\* C24: the adapter returns False whenever no emitted segment is usable
\* (all None, of another type, or empty), and when it returns True the file
\* holds the samples of the non-empty segments in the order emitted.
C24_NoSegmentIsFailure ==
    /\ (kk_pc = "done" /\ NoUsableSegment(kk_emitted))
          => kk_result = Some(FALSE) /\ kk_file = None
    /\ kk_result = Some(TRUE) =>
          /\ kk_pc = "done"
          /\ ~NoUsableSegment(kk_emitted)
          /\ kk_file = Some(UsableAudio(kk_emitted))

\* three chunks, the middle one empty: the file holds the first and the
\* third, in that order
C24_Witness ==
    /\ kk_result = Some(TRUE)
    /\ Len(kk_emitted) = 3
    /\ kk_emitted[1].samples = <<2, 3>>
    /\ kk_emitted[2].samples = <<>>
    /\ kk_emitted[3].samples = <<1>>
    /\ kk_file = Some(<<2, 3, 1>>)

\* only None, another type and an empty array were emitted
C24_WitnessFailure ==
    /\ kk_pc = "done"
    /\ Len(kk_emitted) = 3
    /\ kk_emitted[1].type = "none"
    /\ kk_emitted[2].type = "other"
    /\ kk_emitted[3].type = "ndarray"
    /\ kk_result = Some(FALSE)

(***************************************************************************)
(* Properties of the worker (checked under SpecWorker)                     *)
(***************************************************************************)
\* C23: no step of a /synthesize-speech or /transcribe-audio request,
\* successful or failed, changes the availability flags, the loaded
\* pipelines and model handles or the per-language configurations.
C23_EngineStateReadOnly ==
    [][/\ engine_vars' = engine_vars
       /\ stt_engine_vars' = stt_engine_vars]_vars

\* the second synthesis request of the process ended in a failed Kokoro
\* attempt and a transcription was answered: the pipeline is still loaded
C23_Witness ==
    /\ served = 2
    /\ pc = "done"
    /\ attempts = <<[engine |-> "kokoro", ok |-> FALSE]>>
    /\ KOKORO_TTS_AVAILABLE
    /\ KOKORO_LANGUAGE_CONFIG[language] \in kokoro_pipelines
    /\ stt_pc = "done"
    /\ stt_response # None

(***************************************************************************)
(* Termination of /synthesize-speech (checked under SpecLive)              *)
(***************************************************************************)
\* C25: once the streaming call is awaited, the stream of at most MaxFrames
\* decoded chunks comes to its end, the worker thread ends with the WAV file
\* closed, and the request reaches its one response, audio or error.
C25_StreamingRequestTerminates ==
    /\ (thread = "running") ~> (thread # "running" /\ wf # "open")
    /\ (pc = "orpheus_await") ~>
          (/\ pc = "done"
           /\ Len(responses) = 1
           /\ thread = "joined"
           /\ wf # "open")

\* a stream that ended without a frame: the thread was joined, the WAV is
\* closed and the request was answered with an error
C25_Witness ==
    /\ pc = "done"
    /\ synthesis_method_used = "orpheus"
    /\ thread = "joined"
    /\ wf = "closed"
    /\ frames_written = 0
    /\ Len(responses) = 1
    /\ ~generated_successfully

====
